---- MODULE Spec2Model ----
(***************************************************************************)
(* State-machine model of the MUD server core: the world session registry  *)
(* (server/world_manager.py), the party service (logic/party.py) and the   *)
(* turn-based combat engine (logic/combat.py).                             *)
(*                                                                         *)
(* A player object is identified with its character id.  An NPC's combat   *)
(* id (hash(uid) & 0x7FFFFFFF) is identified with the NPC and is taken     *)
(* from a set disjoint from the player ids.                                *)
(***************************************************************************)
EXTENDS Integers, Sequences, FiniteSets, TLC

\* ------------------------------------------------------------------ bounds
MaxHp == 1               \* starting health of every character
MaxRound == 2            \* cap on round_number
MaxPending == 1          \* cap on the knockout recoveries pending at once
DieSides == 2            \* faces of the initiative die (d20 in the code)

\* ------------------------------------------------------- program constants
MAX_PARTY_SIZE == 4

None == 0
PlayerIds == 1..5        \* the character ids players can have
NpcIds == {9}            \* the combat ids of the NPCs
Rooms == {1, 2}
Directions == 1..8       \* Direction.NORTH .. Direction.NORTH_WEST, by auto() value
InstIds == {1, 2}        \* the CombatInstance objects that can be alive at once

VARIABLES
    sessions,        \* WorldManager.sessions: dict in insertion order, <<[cid, room]>>
    present_players, \* Room.present_players of every room
    parties,         \* PartyManager.parties: dict in insertion order, <<[leader, members]>>
    invites,         \* PartyManager.invites: invitee -> inviter (None when absent)
    active_combats,  \* CombatManager.active_combats: character id -> instance (None when absent)
    combats,         \* the CombatInstance objects
    timer,           \* CombatInstance.turn_timer_task, when pending: the id it was started for
    timer_tasks,     \* the pending _timeout tasks of every instance, oldest first: their ids
    recoveries,      \* pending knockout-recovery tasks
    hp,              \* Character.hp
    char_ko,         \* Character.is_knocked_out
    stats,           \* Character.base_attack, the weapon's attackBonus and hitChance (percent)
    loop,            \* TRUE when an asyncio event loop is running
    present_items,   \* Room.present_items of every room
    inventory,       \* Character.inventory of every player
    delivered,       \* the sessions the latest broadcast called back, in call order
    connected_rooms  \* Room.connected_rooms of every room: direction -> room (None when absent)

worldVars == <<sessions, present_players>>
partyVars == <<parties, invites>>
combatVars == <<active_combats, combats, timer, timer_tasks, recoveries, hp, char_ko>>
itemVars == <<present_items, inventory>>
vars == <<sessions, present_players, parties, invites, active_combats, combats,
          timer, timer_tasks, recoveries, hp, char_ko, stats, loop,
          present_items, inventory, delivered, connected_rooms>>

\* the players, NPCs and instance objects of the world a behaviour started with
ThePlayers == DOMAIN invites
TheNpcs == DOMAIN hp \ DOMAIN invites
TheSlots == DOMAIN combats

\* ---------------------------------------------------------- list helpers
RECURSIVE SeqRemove(_, _)
\* list.remove(x): drops the first occurrence
SeqRemove(s, x) ==
    IF s = <<>> THEN <<>>
    ELSE IF Head(s) = x THEN Tail(s)
    ELSE <<Head(s)>> \o SeqRemove(Tail(s), x)

Range(s) == {s[i] : i \in 1..Len(s)}

Count(s, x) == Cardinality({i \in 1..Len(s) : s[i] = x})

RECURSIVE SelectIdx(_, _, _)
\* the subsequence of s at the positions of the set keep, in order
SelectIdx(s, keep, i) ==
    IF i > Len(s) THEN <<>>
    ELSE IF i \in keep THEN <<s[i]>> \o SelectIdx(s, keep, i + 1)
    ELSE SelectIdx(s, keep, i + 1)

\* ------------------------------------------------------- World Registry
HasSession(ss, c) == \E i \in 1..Len(ss) : ss[i].cid = c

SessionRoom(ss, c) == ss[CHOOSE i \in 1..Len(ss) : ss[i].cid = c].room

\* self.sessions[character_id] = session: a present key keeps its place
SessionsPut(ss, c, r) ==
    IF HasSession(ss, c)
    THEN [i \in 1..Len(ss) |-> IF ss[i].cid = c THEN [cid |-> c, room |-> r] ELSE ss[i]]
    ELSE Append(ss, [cid |-> c, room |-> r])

SessionsPop(ss, c) == SelectSeq(ss, LAMBDA s : s.cid # c)

\* the registry state the World Registry's methods read and write
WS == [sessions |-> sessions, present_players |-> present_players]

join(ws, c, r) ==
    [sessions |-> SessionsPut(ws.sessions, c, r),
     present_players |-> [ws.present_players EXCEPT ![r] = Append(@, c)]]

leave(ws, c) ==
    IF ~HasSession(ws.sessions, c) THEN ws
    ELSE [sessions |-> SessionsPop(ws.sessions, c),
          present_players |->
              [ws.present_players EXCEPT ![SessionRoom(ws.sessions, c)] = SeqRemove(@, c)]]

\* move_player has no return statement: every call returns None
move_player(ws, c, target_room) ==
    IF ~HasSession(ws.sessions, c) THEN [state |-> ws, result |-> "None"]
    ELSE LET old_room == SessionRoom(ws.sessions, c)
             removed == [ws.present_players EXCEPT ![old_room] = SeqRemove(@, c)]
         IN [state |-> [sessions |-> SessionsPut(ws.sessions, c, target_room),
                        present_players |-> [removed EXCEPT ![target_room] = Append(@, c)]],
             result |-> "None"]

\* OPPOSITE: the direction 180 degrees from each direction
OPPOSITE == <<5, 6, 7, 8, 1, 2, 3, 4>>

\* variant: the opposite slot of the destination is not looked at
add_connection_mut(cr, self, room, direction) ==
    IF cr[self][direction] # None THEN [connected_rooms |-> cr, result |-> "ValueError"]
    ELSE LET forward == [cr EXCEPT ![self][direction] = room]
         IN [connected_rooms |-> [forward EXCEPT ![room][OPPOSITE[direction]] = self],
             result |-> "None"]

\* Room.add_connection on the exits cr; "ValueError" when the call raises it
add_connection(cr, self, room, direction) ==
    IF cr[self][direction] # None THEN [connected_rooms |-> cr, result |-> "ValueError"]
    ELSE IF cr[room][OPPOSITE[direction]] # None
    THEN [connected_rooms |-> cr, result |-> "ValueError"]
    ELSE LET forward == [cr EXCEPT ![self][direction] = room]
         IN [connected_rooms |-> [forward EXCEPT ![room][OPPOSITE[direction]] = self],
             result |-> "None"]

\* broadcast_to_room: the ids of the sessions called back, in call order
broadcast_to_room(ss, room, exclude) ==
    LET hit == SelectSeq(ss, LAMBDA e : e.room = room /\ e.cid # exclude)
    IN [i \in 1..Len(hit) |-> hit[i].cid]

\* the item state the atomic actions read and write, with the value returned
\* ("KeyError" when the call raises it)
IS == [present_items |-> present_items, inventory |-> inventory,
       delivered |-> delivered, result |-> "init"]

pickup_item(st, ss, c, item, room) ==
    IF item \notin Range(st.present_items[room]) THEN [st EXCEPT !.result = "False"]
    ELSE LET taken == [st EXCEPT !.present_items[room] = SeqRemove(@, item)]
         IN IF ~HasSession(ss, c) THEN [taken EXCEPT !.result = "KeyError"]
            ELSE [taken EXCEPT !.inventory[c] = Append(@, item),
                               !.delivered = broadcast_to_room(ss, room, c),
                               !.result = "True"]

drop_item(st, ss, c, item, room) ==
    IF ~HasSession(ss, c) THEN [st EXCEPT !.result = "False"]
    ELSE IF item \notin Range(st.inventory[c]) THEN [st EXCEPT !.result = "False"]
    ELSE [st EXCEPT !.inventory[c] = SeqRemove(@, item),
                    !.present_items[room] = Append(@, item),
                    !.delivered = broadcast_to_room(ss, room, c),
                    !.result = "True"]

\* ---------------------------------------------------------- Party Service
HasParty(ps, leader) == \E i \in 1..Len(ps) : ps[i].leader = leader

PartyMembers(ps, leader) == ps[CHOOSE i \in 1..Len(ps) : ps[i].leader = leader].members

\* self.parties[leader] = members
PartiesPut(ps, leader, members) ==
    IF HasParty(ps, leader)
    THEN [i \in 1..Len(ps) |->
            IF ps[i].leader = leader THEN [leader |-> leader, members |-> members] ELSE ps[i]]
    ELSE Append(ps, [leader |-> leader, members |-> members])

\* del self.parties[leader]
PartiesDel(ps, leader) == SelectSeq(ps, LAMBDA p : p.leader # leader)

find_party_leader(ps, c) ==
    LET hits == {i \in 1..Len(ps) : c \in Range(ps[i].members)}
    IN IF hits = {} THEN None
       ELSE ps[CHOOSE i \in hits : \A j \in hits : i <= j].leader

get_party_members(ps, c) ==
    LET leader == find_party_leader(ps, c)
    IN IF leader = None THEN <<c>> ELSE PartyMembers(ps, leader)

\* variant: the members are not filtered by room
get_party_members_in_room_mut(ps, ss, c, room) ==
    SelectSeq(get_party_members(ps, c), LAMBDA mid : HasSession(ss, mid))

get_party_members_in_room(ps, ss, c, room) ==
    SelectSeq(get_party_members(ps, c),
              LAMBDA mid : HasSession(ss, mid) /\ SessionRoom(ss, mid) = room)

\* the party state the Party Service's methods read and write, with the message returned
PS == [parties |-> parties, invites |-> invites, msg |-> "init"]

Said(st, m) == [st EXCEPT !.msg = m]

\* the size checks of invite and of accept
invite_party_full(members) == Len(members) >= MAX_PARTY_SIZE

\* variant: the size check of accept lets a party of MAX_PARTY_SIZE grow
accept_party_full_mut(members) == Len(members) > MAX_PARTY_SIZE

accept_party_full(members) == Len(members) >= MAX_PARTY_SIZE

\* variant: a pending invite of the invitee is not looked at
invite_mut(st, ss, inviter, invitee) ==
    IF ~HasSession(ss, inviter) \/ ~HasSession(ss, invitee) THEN Said(st, "player_not_found")
    ELSE IF SessionRoom(ss, inviter) # SessionRoom(ss, invitee) THEN Said(st, "not_in_room")
    ELSE IF find_party_leader(st.parties, invitee) # None THEN Said(st, "already_in_party")
    ELSE IF invite_party_full(get_party_members(st.parties, inviter)) THEN Said(st, "party_full")
    ELSE [st EXCEPT !.invites[invitee] = inviter, !.msg = "invite_sent"]

invite(st, ss, inviter, invitee) ==
    IF ~HasSession(ss, inviter) \/ ~HasSession(ss, invitee) THEN Said(st, "player_not_found")
    ELSE IF SessionRoom(ss, inviter) # SessionRoom(ss, invitee) THEN Said(st, "not_in_room")
    ELSE IF find_party_leader(st.parties, invitee) # None THEN Said(st, "already_in_party")
    ELSE IF invite_party_full(get_party_members(st.parties, inviter)) THEN Said(st, "party_full")
    ELSE IF st.invites[invitee] # None THEN Said(st, "invite_pending")
    ELSE [st EXCEPT !.invites[invitee] = inviter, !.msg = "invite_sent"]

accept(st, ss, c) ==
    LET inviter == st.invites[c]
        popped == [st EXCEPT !.invites[c] = None]
    IN IF inviter = None THEN Said(st, "no_invite")
       ELSE IF ~HasSession(ss, inviter) \/ ~HasSession(ss, c) THEN Said(popped, "inviter_offline")
       ELSE LET found == find_party_leader(st.parties, inviter)
                leader == IF found = None THEN inviter ELSE found
                ensured == IF found = None
                           THEN PartiesPut(st.parties, leader, <<inviter>>)
                           ELSE st.parties
            IN IF accept_party_full(PartyMembers(ensured, leader))
               THEN [popped EXCEPT !.parties = ensured, !.msg = "party_now_full"]
               ELSE [popped EXCEPT
                        !.parties = PartiesPut(ensured, leader,
                                               Append(PartyMembers(ensured, leader), c)),
                        !.msg = "joined_party"]

decline(st, c) ==
    IF st.invites[c] = None THEN Said(st, "no_invite")
    ELSE [st EXCEPT !.invites[c] = None, !.msg = "declined"]

leave_party(st, c) ==
    LET leader == find_party_leader(st.parties, c)
        members == SeqRemove(PartyMembers(st.parties, leader), c)
        removed == PartiesPut(st.parties, leader, members)
    IN IF leader = None THEN Said(st, "not_in_party")
       ELSE [st EXCEPT
               !.msg = "left_party",
               !.parties =
                  IF c = leader
                  THEN IF Len(members) >= 2
                       THEN PartiesDel(PartiesPut(removed, members[1], members), leader)
                       ELSE IF Len(members) = 1 THEN PartiesDel(removed, leader)
                       ELSE removed
                  ELSE IF Len(members) = 1 THEN PartiesDel(removed, leader)
                  ELSE removed]

\* PartyManager.remove_player
party_remove_player(st, c) ==
    IF find_party_leader(st.parties, c) = None THEN Said(st, "none")
    ELSE Said(leave_party([st EXCEPT !.invites[c] = None], c), "none")

\* ---------------------------------------------------------- Combat Engine
\* character stats the encounters are played with: fists (no weapon) and base attack 1
DefaultStats == [base_attack |-> 1, bonus |-> 0, hit_pct |-> 75]
Stamina(c) == IF c \in NpcIds THEN 20 ELSE 10
BaseAttack(c) == stats[c].base_attack
WeaponBonus(c) == stats[c].bonus
HitChancePct(c) == stats[c].hit_pct

NoCombatant ==
    [key |-> 0, character_id |-> None, team |-> 0, is_defending |-> FALSE,
     is_knocked_out |-> FALSE, is_npc |-> FALSE, initiative |-> 0]

Combatant(k, c, t, npc) ==
    [key |-> k, character_id |-> c, team |-> t, is_defending |-> FALSE,
     is_knocked_out |-> FALSE, is_npc |-> npc, initiative |-> 0]

CombatInstance(r) ==
    [combatants |-> <<>>, current_turn_index |-> 0, room |-> r, round_number |-> 1]

\* a slot that holds no CombatInstance object
NoInstance == CombatInstance(None)

get_active_combatants(inst) ==
    SelectSeq(inst.combatants, LAMBDA c : ~c.is_knocked_out)

\* variant: the turn index is resolved against the whole combatant list
current_combatant_mut(inst) ==
    IF inst.combatants = <<>> THEN NoCombatant
    ELSE inst.combatants[(inst.current_turn_index % Len(inst.combatants)) + 1]

current_combatant(inst) ==
    IF inst.combatants = <<>> THEN NoCombatant
    ELSE LET active == SelectSeq(inst.combatants, LAMBDA c : ~c.is_knocked_out)
         IN IF active = <<>> THEN NoCombatant
            ELSE active[(inst.current_turn_index % Len(active)) + 1]

\* variant: knocked-out combatants of the other team count as enemies
get_enemies_mut(inst, combatant) ==
    SelectSeq(inst.combatants, LAMBDA c : c.team # combatant.team)

get_enemies(inst, combatant) ==
    SelectSeq(inst.combatants, LAMBDA c : c.team # combatant.team /\ ~c.is_knocked_out)

\* variant: knocked-out combatants still count for their team
is_over_mut(inst) ==
    LET teams == {inst.combatants[k].team : k \in 1..Len(inst.combatants)}
    IN Cardinality(teams) <= 1

is_over(inst) ==
    LET teams == {inst.combatants[k].team :
                    k \in {j \in 1..Len(inst.combatants) : ~inst.combatants[j].is_knocked_out}}
    IN Cardinality(teams) <= 1

\* variant: nobody is reported as being in combat
is_in_combat_mut(ac, c) == FALSE

is_in_combat(ac, c) == ac[c] # None

\* the combat-side state the engine's methods read and write, with the message returned
CS == [active_combats |-> active_combats, combats |-> combats, timer |-> timer,
       timer_tasks |-> timer_tasks,
       recoveries |-> recoveries, hp |-> hp, char_ko |-> char_ko, msg |-> "init"]

Msg(cs, m) == [cs EXCEPT !.msg = m]

ByKey(inst, k) == inst.combatants[CHOOSE j \in 1..Len(inst.combatants) : inst.combatants[j].key = k]

\* dataclass equality of two Combatant objects (all fields of the class)
EqCombatant(a, b) ==
    /\ a.character_id = b.character_id /\ a.team = b.team
    /\ a.is_defending = b.is_defending /\ a.is_knocked_out = b.is_knocked_out
    /\ a.is_npc = b.is_npc /\ a.initiative = b.initiative

SetDefending(cs, i, k, v) ==
    [cs EXCEPT !.combats[i].combatants =
        [j \in 1..Len(@) |-> IF @[j].key = k THEN [@[j] EXCEPT !.is_defending = v] ELSE @[j]]]

SetKnockedOut(cs, i, k, v) ==
    [cs EXCEPT !.combats[i].combatants =
        [j \in 1..Len(@) |-> IF @[j].key = k THEN [@[j] EXCEPT !.is_knocked_out = v] ELSE @[j]]]

\* variant: cancelling leaves the task pending
cancel_timer_mut(cs, i) == [cs EXCEPT !.timer[i] = None]

\* _cancel_timer: the task the instance refers to, the newest, is cancelled
cancel_timer(cs, i) ==
    IF cs.timer[i] = None THEN cs
    ELSE [cs EXCEPT !.timer[i] = None,
                    !.timer_tasks[i] = SubSeq(@, 1, Len(@) - 1)]

start_timer(cs, i, c) ==
    IF loop
    THEN [cancel_timer(cs, i) EXCEPT !.timer[i] = c, !.timer_tasks[i] = Append(@, c)]
    ELSE cancel_timer(cs, i)

\* the state a pending _timeout task of instance i, the k-th, wakes up in: it
\* is no longer pending, and no longer a task _cancel_timer would cancel
Woken(cs, i, k) ==
    [cs EXCEPT !.timer_tasks[i] = SubSeq(@, 1, k - 1) \o SubSeq(@, k + 1, Len(@)),
               !.timer[i] = IF k = Len(cs.timer_tasks[i]) THEN None ELSE @]

\* variant: the timer is cancelled but the index keeps the combatants
end_combat_mut(cs, i) == cancel_timer(cs, i)

end_combat(cs, i) ==
    LET ids == {cs.combats[i].combatants[j].character_id : j \in 1..Len(cs.combats[i].combatants)}
    IN [cancel_timer(cs, i) EXCEPT
          !.active_combats = [c \in DOMAIN @ |-> IF c \in ids THEN None ELSE @[c]]]

\* variant: no recovery task is created
start_knockout_recovery_mut(cs, i, k, c) == cs

start_knockout_recovery(cs, i, k, c) ==
    IF loop
    THEN [cs EXCEPT !.recoveries = @ \cup {[inst |-> i, key |-> k, cid |-> c]}]
    ELSE [cs EXCEPT !.hp[c] = 1, !.char_ko[c] = FALSE]

Max(a, b) == IF a >= b THEN a ELSE b

\* variant: the halved damage is not raised to 1
damage_for_mut(base, bonus, v, defending) ==
    LET damage == Max(1, base + bonus + v)
    IN IF defending THEN damage \div 2 ELSE damage

\* the damage of a hit with variance v = random.randint(-2, 2)
damage_for(base, bonus, v, defending) ==
    LET damage == Max(1, base + bonus + v)
    IN IF defending THEN Max(1, damage \div 2) ELSE damage

\* _calculate_damage: the (damage, did_hit) pairs the random draws can give
calculate_damage(base, bonus, hit_pct, defending) ==
    (IF hit_pct < 100 THEN {[damage |-> 0, did_hit |-> FALSE]} ELSE {})
    \cup (IF hit_pct > 0
          THEN {[damage |-> damage_for(base, bonus, v, defending), did_hit |-> TRUE] : v \in -2..2}
          ELSE {})

\* variant: the health is not clamped at 0
apply_hit_mut(cs, i, defender, damage) ==
    LET c == defender.character_id
        left == cs.hp[c] - damage
    IN IF left <= 0
       THEN LET down == [SetKnockedOut(cs, i, defender.key, TRUE) EXCEPT
                            !.hp[c] = left, !.char_ko[c] = TRUE]
            IN IF ~defender.is_npc
               THEN start_knockout_recovery(down, i, defender.key, c)
               ELSE down
       ELSE [cs EXCEPT !.hp[c] = left]

\* the state after the defender has taken a hit of the given damage
apply_hit(cs, i, defender, damage) ==
    LET c == defender.character_id
        left == cs.hp[c] - damage
    IN IF left <= 0
       THEN LET down == [SetKnockedOut(cs, i, defender.key, TRUE) EXCEPT
                            !.hp[c] = 0, !.char_ko[c] = TRUE]
            IN IF ~defender.is_npc
               THEN start_knockout_recovery(down, i, defender.key, c)
               ELSE down
       ELSE [cs EXCEPT !.hp[c] = left]

\* a name is a word in lower case or the same word capitalised; the
\* capitalised form of the word with the code n has the code n + CaseShift
CaseShift == 100

\* the empty string
NoName == None

\* Character.name: the word coded by the character's id, capitalised
Name(c) == c + CaseShift

\* str.lower()
Lower(name) == IF name > CaseShift THEN name - CaseShift ELSE name

\* the target resolution of _handle_attack: NoCombatant when the name matches no enemy
attack_defender(inst, attacker, target_name) ==
    LET enemies == get_enemies(inst, attacker)
        named == {j \in 1..Len(enemies) :
                    Lower(Name(enemies[j].character_id)) = Lower(target_name)}
    IN IF target_name # NoName
       THEN IF named = {} THEN NoCombatant
            ELSE enemies[CHOOSE j \in named : \A m \in named : j <= m]
       ELSE enemies[1]

RECURSIVE resolve_attack(_, _, _, _, _), handle_attack(_, _, _, _), advance_turn(_, _),
          start_turn(_, _)

\* _handle_attack from the damage roll o on: hit or miss, flag reset, end check, next turn
resolve_attack(cs, i, akey, defender, o) ==
    LET struck == IF o.did_hit THEN apply_hit(cs, i, defender, o.damage) ELSE cs
        reset == SetDefending(struck, i, akey, FALSE)
    IN IF is_over(reset.combats[i])
       THEN {end_combat(reset, i)}
       ELSE advance_turn(reset, i)

handle_attack(cs, i, akey, target_name) ==
    LET inst == cs.combats[i]
        attacker == ByKey(inst, akey)
        enemies == get_enemies(inst, attacker)
        defender == attack_defender(inst, attacker, target_name)
    IN IF enemies = <<>> THEN {Msg(end_combat(cs, i), "no_enemies")}
       ELSE IF defender.key = 0 THEN {Msg(cs, "invalid_target")}
       ELSE {Msg(r, "ok") :
               r \in UNION {resolve_attack(cs, i, akey, defender, o) :
                      o \in calculate_damage(BaseAttack(attacker.character_id),
                                             WeaponBonus(attacker.character_id),
                                             HitChancePct(attacker.character_id),
                                             defender.is_defending)}}

advance_turn(cs, i) ==
    LET active == get_active_combatants(cs.combats[i])
    IN IF active = <<>> THEN {end_combat(cs, i)}
       ELSE LET next == (cs.combats[i].current_turn_index + 1) % Len(active)
                moved == [cs EXCEPT !.combats[i].current_turn_index = next,
                                    !.combats[i].round_number =
                                        IF next = 0 THEN @ + 1 ELSE @]
            IN start_turn(moved, i)

\* _start_turn, with _npc_take_turn for an NPC's turn
start_turn(cs, i) ==
    LET current == current_combatant(cs.combats[i])
    IN IF current.key = 0 THEN {end_combat(cs, i)}
       ELSE IF current.is_npc
       THEN LET enemies == get_enemies(cs.combats[i], current)
            IN IF enemies = <<>> THEN {cs}
               ELSE UNION {handle_attack(cs, i, current.key, Name(enemies[j].character_id)) :
                             j \in 1..Len(enemies)}
       ELSE {start_timer(cs, i, current.character_id)}

handle_defend(cs, i, k) ==
    LET set == SetDefending(cs, i, k, TRUE)
    IN {Msg(r, "ok") :
          r \in IF is_over(set.combats[i]) THEN {end_combat(set, i)} ELSE advance_turn(set, i)}

remove_combatant(cs, i, combatant) ==
    LET inst == cs.combats[i]
        active == get_active_combatants(inst)
        at == {j \in 1..Len(active) : EqCombatant(active[j], combatant)}
        removed_idx == (CHOOSE j \in at : \A m \in at : j <= m) - 1
        idx == IF at # {} /\ removed_idx < inst.current_turn_index
               THEN inst.current_turn_index - 1 ELSE inst.current_turn_index
        hits == {j \in 1..Len(inst.combatants) : EqCombatant(inst.combatants[j], combatant)}
        gone == CHOOSE j \in hits : \A m \in hits : j <= m
    IN [cs EXCEPT !.combats[i].current_turn_index = idx,
                  !.combats[i].combatants = SelectIdx(@, (1..Len(@)) \ {gone}, 1),
                  !.active_combats[combatant.character_id] = None]

\* _handle_flee; fled is the outcome of random.random() < 0.5
\* variant: a failed flee leaves the defending flag as it is
handle_flee_mut(cs, i, k, fled) ==
    IF fled
    THEN LET out == remove_combatant(cs, i, ByKey(cs.combats[i], k))
         IN {Msg(r, "escaped") :
               r \in IF is_over(out.combats[i]) THEN {end_combat(out, i)}
                     ELSE advance_turn(out, i)}
    ELSE {Msg(r, "ok") : r \in advance_turn(cs, i)}

handle_flee(cs, i, k, fled) ==
    IF fled
    THEN LET out == remove_combatant(cs, i, ByKey(cs.combats[i], k))
         IN {Msg(r, "escaped") :
               r \in IF is_over(out.combats[i]) THEN {end_combat(out, i)}
                     ELSE advance_turn(out, i)}
    ELSE {Msg(r, "ok") : r \in advance_turn(SetDefending(cs, i, k, FALSE), i)}

Verbs == {"attack", "defend", "flee", "dance"}

\* variant: the turn timer is cancelled before the turn check
handle_combat_input_mut(cs, c, verb, arg, fled) ==
    LET i == cs.active_combats[c]
    IN IF i = None THEN {Msg(cs, "not_in_combat")}
       ELSE LET current == current_combatant(cs.combats[i])
                held == cancel_timer(cs, i)
            IN IF current.key = 0 \/ current.character_id # c
               THEN {Msg(held, "not_your_turn")}
               ELSE IF verb = "attack" THEN handle_attack(held, i, current.key, Lower(arg))
               ELSE IF verb = "defend" THEN handle_defend(held, i, current.key)
               ELSE IF verb = "flee" THEN handle_flee(held, i, current.key, fled)
               ELSE {Msg(held, "help")}

handle_combat_input(cs, c, verb, arg, fled) ==
    LET i == cs.active_combats[c]
    IN IF i = None THEN {Msg(cs, "not_in_combat")}
       ELSE LET current == current_combatant(cs.combats[i])
                held == cancel_timer(cs, i)
            IN IF current.key = 0 \/ current.character_id # c
               THEN {Msg(cs, "not_your_turn")}
               ELSE IF verb = "attack" THEN handle_attack(held, i, current.key, Lower(arg))
               ELSE IF verb = "defend" THEN handle_defend(held, i, current.key)
               ELSE IF verb = "flee" THEN handle_flee(held, i, current.key, fled)
               ELSE {Msg(held, "help")}

\* variant: the turn is passed on without looking at whose turn it is
on_turn_timeout_mut(cs, i, c) ==
    LET current == current_combatant(cs.combats[i])
    IN IF current.key # 0
       THEN advance_turn(SetDefending(cs, i, current.key, FALSE), i)
       ELSE {cs}

\* _on_turn_timeout, run by the timer task of instance i started for c
on_turn_timeout(cs, i, c) ==
    LET current == current_combatant(cs.combats[i])
    IN IF current.key # 0 /\ current.character_id = c
       THEN advance_turn(SetDefending(cs, i, current.key, FALSE), i)
       ELSE {cs}

\* the body of the _recover task of one knocked-out combatant
recover(cs, r) ==
    [SetKnockedOut(cs, r.inst, r.key, FALSE) EXCEPT
        !.hp[r.cid] = 1, !.char_ko[r.cid] = FALSE,
        !.recoveries = @ \ {r}]

remove_player(cs, c) ==
    LET i == cs.active_combats[c]
    IN IF i = None THEN cs
       ELSE LET inst == cs.combats[i]
                hits == {j \in 1..Len(inst.combatants) : inst.combatants[j].character_id = c}
                out == IF hits = {} THEN cs
                       ELSE LET k == inst.combatants[CHOOSE j \in hits : \A m \in hits : j <= m].key
                                down == SetKnockedOut(cs, i, k, TRUE)
                            IN remove_combatant(down, i, ByKey(down.combats[i], k))
            IN IF is_over(out.combats[i]) THEN end_combat(out, i) ELSE out

\* ------------------------------------------------------------ start_combat
RECURSIVE SortDescending(_, _)
\* list.sort(key=initiative, reverse=True): stable, equal keys keep their order
SortDescending(sorted, rest) ==
    IF rest = <<>> THEN sorted
    ELSE LET c == Head(rest)
             ahead == Cardinality({j \in 1..Len(sorted) : sorted[j].initiative >= c.initiative})
         IN SortDescending(SubSeq(sorted, 1, ahead) \o <<c>> \o SubSeq(sorted, ahead + 1, Len(sorted)),
                           Tail(rest))

\* variant: the initiative is the die result alone
roll_initiative_mut(combatants, rolls) ==
    SortDescending(<<>>,
        [j \in 1..Len(combatants) |-> [combatants[j] EXCEPT !.initiative = rolls[j]]])

\* _roll_initiative with the die results given by rolls
roll_initiative(combatants, rolls) ==
    SortDescending(<<>>,
        [j \in 1..Len(combatants) |->
            [combatants[j] EXCEPT !.initiative = rolls[j] + (Stamina(combatants[j].character_id) \div 10)]])

\* the instance objects no index entry, timer or recovery task refers to
FreeSlots(cs) ==
    {i \in DOMAIN cs.combats :
        /\ \A c \in DOMAIN cs.active_combats : cs.active_combats[c] # i
        /\ cs.timer_tasks[i] = <<>>
        /\ \A r \in cs.recoveries : r.inst # i}

\* the ids of one side: the character and its party members in the room, less those fighting
SideIds(ac, c, room) ==
    LET in_room == get_party_members_in_room(parties, sessions, c, room)
        ids == IF c \in Range(in_room) THEN in_room ELSE <<c>> \o in_room
    IN SelectSeq(ids, LAMBDA x : ~is_in_combat(ac, x) /\ HasSession(sessions, x))

\* the combatant list start_combat builds, before initiative is rolled
build_combatants(ac, attacker_id, target, room) ==
    LET attackers == SideIds(ac, attacker_id, room)
        defenders == IF target \in NpcIds THEN <<target>> ELSE SideIds(ac, target, room)
        ids == attackers \o defenders
    IN [j \in 1..Len(ids) |->
          Combatant(j, ids[j], IF j <= Len(attackers) THEN 0 ELSE 1,
                    j > Len(attackers) /\ target \in NpcIds)]

\* start_combat up to the registration of the combatants, as instance i
register_combat(cs, i, built, room, rolls) ==
    [cs EXCEPT
        !.combats[i] = [CombatInstance(room) EXCEPT !.combatants = roll_initiative(built, rolls)],
        !.active_combats = [c \in DOMAIN @ |->
                              IF \E j \in 1..Len(built) : built[j].character_id = c
                              THEN i ELSE @[c]]]

start_combat(cs, attacker_id, target, room) ==
    IF ~HasSession(sessions, attacker_id) THEN {Msg(cs, "error_starting")}
    ELSE IF is_in_combat(cs.active_combats, attacker_id) THEN {Msg(cs, "already_in_combat")}
    ELSE IF target \notin NpcIds /\ ~HasSession(sessions, target) THEN {Msg(cs, "target_not_found")}
    ELSE IF target \notin NpcIds /\ is_in_combat(cs.active_combats, target)
    THEN {Msg(cs, "target_in_combat")}
    ELSE
      LET built == build_combatants(cs.active_combats, attacker_id, target, room)
      IN IF Len(built) < 2 THEN {Msg(cs, "cannot_start")}
         ELSE IF FreeSlots(cs) = {} THEN {}
         ELSE LET i == CHOOSE f \in FreeSlots(cs) : \A g \in FreeSlots(cs) : f <= g
              IN UNION {{Msg(r, "started") :
                           r \in start_turn(register_combat(cs, i, built, room, rolls), i)}
                        : rolls \in [1..Len(built) -> 1..DieSides]}

\* ------------------------------------------------------------- the actions
\* an instance object nothing refers to any more is dropped
Collected(cs) ==
    [i \in DOMAIN cs.combats |->
        IF (\A c \in DOMAIN cs.active_combats : cs.active_combats[c] # i)
           /\ cs.timer_tasks[i] = <<>>
        THEN NoInstance ELSE cs.combats[i]]

Commit(o) ==
    /\ \A i \in DOMAIN o.combats : o.combats[i].round_number <= MaxRound
    /\ Cardinality(o.recoveries) <= MaxPending
    /\ active_combats' = o.active_combats
    /\ combats' = Collected(o)
    /\ timer' = o.timer
    /\ timer_tasks' = o.timer_tasks
    /\ recoveries' = o.recoveries
    /\ hp' = o.hp
    /\ char_ko' = o.char_ko
    /\ UNCHANGED <<worldVars, partyVars, stats, loop, itemVars, delivered, connected_rooms>>

StartCombat(a, t, r) == \E o \in start_combat(CS, a, t, r) : Commit(o)

CombatInput(c, verb, arg, fled) ==
    \E o \in handle_combat_input(CS, c, verb, arg, fled) : Commit(o)

TurnTimeout(i) ==
    \E k \in 1..Len(timer_tasks[i]) :
        \E o \in on_turn_timeout(Woken(CS, i, k), i, timer_tasks[i][k]) :
            Commit(Msg(o, "timeout"))

Recover(r) ==
    /\ r \in recoveries
    /\ Commit(Msg(recover(CS, r), "recovered"))

CombatRemovePlayer(c) == Commit(Msg(remove_player(CS, c), "removed"))

CommitWorld(o) ==
    /\ sessions' = o.sessions
    /\ present_players' = o.present_players
    /\ UNCHANGED <<partyVars, combatVars, stats, loop, itemVars, delivered, connected_rooms>>

Join(c, r) == CommitWorld(join(WS, c, r))

Leave(c) == CommitWorld(leave(WS, c))

MovePlayer(c, r) == CommitWorld(move_player(WS, c, r).state)

\* a combat command of player c, with every argument and flee outcome of the given verbs
AnyCombatInput(c, verbs) ==
    \E verb \in verbs :
      \E arg \in (IF verb = "attack" THEN {NoName} \cup {Name(t) : t \in DOMAIN hp}
                                       ELSE {NoName}),
         fled \in (IF verb = "flee" THEN BOOLEAN ELSE {FALSE}) :
           CombatInput(c, verb, arg, fled)

\* --------------------------------------------------------- specifications
\* nothing lies in the rooms, nobody carries anything, nothing was broadcast
\* and the rooms are not connected
InitRooms ==
    /\ present_items = [r \in Rooms |-> <<>>]
    /\ inventory = [c \in PlayerIds |-> <<>>]
    /\ delivered = <<>>
    /\ connected_rooms = [r \in Rooms |-> [d \in Directions |-> None]]

\* the players ps online in room 1, having joined in the order of their ids
InitWorld(ps) ==
    /\ sessions = [j \in 1..Cardinality(ps) |-> [cid |-> j, room |-> 1]]
    /\ present_players = [r \in Rooms |-> IF r = 1 THEN [j \in 1..Cardinality(ps) |-> j] ELSE <<>>]

InitCombat(ps, slots) ==
    /\ active_combats = [c \in ps \cup NpcIds |-> None]
    /\ combats = [i \in slots |-> NoInstance]
    /\ timer = [i \in slots |-> None]
    /\ timer_tasks = [i \in slots |-> <<>>]
    /\ recoveries = {}
    /\ hp = [c \in ps \cup NpcIds |-> MaxHp]
    /\ char_ko = [c \in ps \cup NpcIds |-> FALSE]
    /\ stats = [c \in ps \cup NpcIds |-> DefaultStats]

\* Spec: two unpartied players and one NPC in one room, two instance objects
Init ==
    /\ InitWorld(1..2)
    /\ parties = <<>>
    /\ invites = [c \in 1..2 |-> None]
    /\ InitCombat(1..2, InstIds)
    /\ loop = TRUE
    /\ InitRooms

Next ==
    \/ \E a \in ThePlayers : \E t \in DOMAIN hp \ {a} : StartCombat(a, t, SessionRoom(sessions, a))
    \/ \E c \in ThePlayers : AnyCombatInput(c, Verbs)
    \/ \E i \in TheSlots : TurnTimeout(i)
    \/ \E r \in recoveries : Recover(r)
    \/ \E c \in ThePlayers : CombatRemovePlayer(c)

Spec == Init /\ [][Next]_vars

\* SpecParty: five players online in one room, the party service
InitParty ==
    /\ InitWorld(1..5)
    /\ parties = <<>>
    /\ invites = [c \in 1..5 |-> None]
    /\ InitCombat(1..5, {1})
    /\ loop = TRUE
    /\ InitRooms

CommitParty(o) ==
    /\ parties' = o.parties
    /\ invites' = o.invites
    /\ UNCHANGED <<worldVars, combatVars, stats, loop, itemVars, delivered, connected_rooms>>

Invite(a, b) == CommitParty(invite(PS, sessions, a, b))

Accept(c) == CommitParty(accept(PS, sessions, c))

Decline(c) == CommitParty(decline(PS, c))

LeaveParty(c) == CommitParty(leave_party(PS, c))

PartyRemovePlayer(c) == CommitParty(party_remove_player(PS, c))

\* the players whose invite commands are enumerated
Inviters == {1, 2, 3}

NextParty ==
    \/ \E a \in Inviters, b \in ThePlayers : Invite(a, b)
    \/ \E c \in ThePlayers : Accept(c)
    \/ \E c \in ThePlayers : Decline(c)
    \/ \E c \in ThePlayers : LeaveParty(c)
    \/ \E c \in ThePlayers : PartyRemovePlayer(c)

SpecParty == InitParty /\ [][NextParty]_vars

\* SpecTeams: players 1 and 2 in a party, player 3 and one NPC, one instance
\* object; player 2 is in either room
InitTeams ==
    /\ \E r \in Rooms :
         /\ sessions = [j \in 1..3 |-> [cid |-> j, room |-> IF j = 2 THEN r ELSE 1]]
         /\ present_players = [q \in Rooms |->
                                 SelectSeq(<<1, 2, 3>>, LAMBDA j : (IF j = 2 THEN r ELSE 1) = q)]
    /\ parties = <<[leader |-> 1, members |-> <<1, 2>>]>>
    /\ invites = [c \in 1..3 |-> None]
    /\ InitCombat(1..3, {1})
    /\ loop = TRUE
    /\ InitRooms

NextTeams ==
    \/ \E a \in ThePlayers : \E t \in DOMAIN hp \ {a} :
         /\ IF t \in TheNpcs THEN TRUE
            ELSE SessionRoom(sessions, t) = SessionRoom(sessions, a)
         /\ StartCombat(a, t, SessionRoom(sessions, a))
    \/ \E c \in ThePlayers : AnyCombatInput(c, Verbs)
    \/ \E i \in TheSlots : TurnTimeout(i)
    \/ \E r \in recoveries : Recover(r)
    \/ \E c \in ThePlayers : CombatRemovePlayer(c)

SpecTeams == InitTeams /\ [][NextTeams]_vars

\* SpecWorld: two players joining, moving and leaving, one NPC, one instance object
MaxPresent == 2          \* cap on the length of a room's present-player list

InitRegistry ==
    /\ sessions = <<>>
    /\ present_players = [r \in Rooms |-> <<>>]
    /\ parties = <<>>
    /\ invites = [c \in 1..2 |-> None]
    /\ InitCombat(1..2, {1})
    /\ loop = TRUE
    /\ InitRooms

NextWorld ==
    \/ \E c \in ThePlayers, r \in Rooms :
         Len(present_players[r]) < MaxPresent /\ Join(c, r)
    \/ \E c \in ThePlayers : Leave(c)
    \/ \E c \in ThePlayers, r \in Rooms :
         Len(present_players[r]) < MaxPresent /\ MovePlayer(c, r)
    \/ \E a \in ThePlayers : HasSession(sessions, a) /\
         \E t \in DOMAIN hp \ {a} : StartCombat(a, t, SessionRoom(sessions, a))
    \/ \E c \in ThePlayers : AnyCombatInput(c, {"flee"})
    \/ \E i \in TheSlots : TurnTimeout(i)
    \/ \E r \in recoveries : Recover(r)

SpecWorld == InitRegistry /\ [][NextWorld]_vars

\* LiveSpec: Spec with every pending timer task and recovery task eventually run
LiveSpec ==
    /\ Init /\ [][Next]_vars
    /\ \A i \in InstIds : WF_vars(TurnTimeout(i))
    /\ WF_vars(\E r \in recoveries : Recover(r))

\* ------------------------------------------------------------- properties
\* instance i is registered in the active-combat index
Live(i) == \E c \in DOMAIN active_combats : active_combats[c] = i

CombatantIds(inst) == {inst.combatants[j].character_id : j \in 1..Len(inst.combatants)}

\* the combat state with one more instance object for start_combat to allocate
Spare(cs) ==
    LET fresh == Cardinality(DOMAIN cs.combats) + 1
    IN [cs EXCEPT !.combats = @ @@ (fresh :> NoInstance),
                  !.timer = @ @@ (fresh :> None),
                  !.timer_tasks = @ @@ (fresh :> <<>>)]

\* c and the members of the party c is in
Allies(c) ==
    {c} \cup {m \in ThePlayers :
                \E k \in 1..Len(parties) : {c, m} \subseteq Range(parties[k].members)}

InRoom(m, r) == HasSession(sessions, m) /\ SessionRoom(sessions, m) = r

\* the model's caps are reached: no further round or recovery task is explored
AtCap ==
    \/ \E i \in TheSlots : combats[i].round_number >= MaxRound
    \/ Cardinality(recoveries) >= MaxPending

\* the current turn of instance i changes in the step
TurnMoves(i) ==
    \/ combats'[i].current_turn_index # combats[i].current_turn_index
    \/ combats'[i].round_number # combats[i].round_number

\* C1: with timers and recovery tasks firing fairly and no further player
\* input needed, no instance stays registered from some point on without its
\* current turn (turn index, round) ever changing again: either the instance
\* is unregistered again and again, or its turn changes again and again
C1_CombatProgresses ==
    \A i \in InstIds :
        \/ []<>(~Live(i) \/ AtCap)
        \/ []<><<TurnMoves(i)>>_vars

\* C2: no character id is a combatant of two registered instances, and the
\* index maps every combatant of a registered instance to that instance
C2_OneInstancePerCharacter ==
    /\ \A c \in DOMAIN hp :
         Cardinality({i \in TheSlots : Live(i) /\ c \in CombatantIds(combats[i])}) <= 1
    /\ \A i \in TheSlots :
         Live(i) => \A c \in CombatantIds(combats[i]) : active_combats[c] = i

\* C3: in a registered instance with a combatant that is not knocked out, the
\* combatant current_turn_index resolves to is one of its combatants and is
\* not knocked out
C3_CurrentNotKnockedOut ==
    \A i \in TheSlots :
        (Live(i) /\ get_active_combatants(combats[i]) # <<>>) =>
            LET c == current_combatant(combats[i])
            IN /\ c \in Range(combats[i].combatants)
               /\ ~c.is_knocked_out

\* a registered instance goes on with a knocked-out combatant in its list
C3_Witness ==
    \E i \in TheSlots :
        /\ Live(i)
        /\ \E j \in 1..Len(combats[i].combatants) : combats[i].combatants[j].is_knocked_out
        /\ Len(get_active_combatants(combats[i])) >= 2

\* C4: move_player for a character in the active-combat index returns False
\* and leaves the session registry and every room's player list unchanged
C4_MoveRefusedInCombat ==
    \A c \in ThePlayers : \A r \in Rooms :
        (HasSession(sessions, c) /\ active_combats[c] # None) =>
            move_player(WS, c, r) = [state |-> WS, result |-> "False"]

\* C5: no instance with at most one team among its combatants that are not
\* knocked out is registered in the active-combat index or has a pending timer
C5_OverIsTornDown ==
    \A i \in TheSlots :
        is_over(combats[i]) => (~Live(i) /\ timer[i] = None)

\* an encounter has ended by a knockout and nothing is registered any more
C5_Witness ==
    /\ \A i \in TheSlots : ~Live(i) /\ timer[i] = None
    /\ \E c \in DOMAIN hp : char_ko[c]

\* C6: no party has more than 4 members, and an accept into a party that
\* already has 4 members is rejected and leaves every member list unchanged
C6_PartySizeBounded ==
    /\ \A k \in 1..Len(parties) : Len(parties[k].members) <= 4
    /\ \A c \in ThePlayers :
         (/\ invites[c] # None
          /\ HasSession(sessions, invites[c]) /\ HasSession(sessions, c)
          /\ Len(get_party_members(parties, invites[c])) = 4) =>
             LET o == accept(PS, sessions, c)
             IN o.msg = "party_now_full" /\ o.parties = parties

\* a party of 4 with an invitation of one of its members still pending
C6_Witness ==
    \E c \in ThePlayers :
        /\ invites[c] # None
        /\ Len(get_party_members(parties, invites[c])) = 4

\* C7: every character id is in at most one party's member list, at most once
C7_OnePartyOnce ==
    \A c \in ThePlayers :
        Cardinality({kj \in (1..Len(parties)) \X (1..(MAX_PARTY_SIZE + 1)) :
                       /\ kj[2] <= Len(parties[kj[1]].members)
                       /\ parties[kj[1]].members[kj[2]] = c}) <= 1

\* C8: join for an id that already has a session changes neither the sessions
\* nor any room's player list
C8_DoubleJoinUnchanged ==
    \A c \in ThePlayers : \A r \in Rooms :
        HasSession(sessions, c) => join(WS, c, r) = WS

\* C9: start_combat by an initiator already in the index, or against a player
\* target already in the index, returns only its rejection message and leaves
\* the index, every instance, every timer and all health values as they were
C9_RejectedStartChangesNothing ==
    \A a \in ThePlayers : \A t \in DOMAIN hp \ {a} :
        LET outs == start_combat(Spare(CS), a, t, SessionRoom(sessions, a))
        IN /\ active_combats[a] # None => outs = {Msg(Spare(CS), "already_in_combat")}
           /\ (active_combats[a] = None /\ t \in ThePlayers /\ active_combats[t] # None)
                 => outs = {Msg(Spare(CS), "target_in_combat")}

\* one player is fighting while another is free to try a fight with them
C9_Witness ==
    \E a \in ThePlayers : \E t \in ThePlayers :
        /\ active_combats[a] = None /\ active_combats[t] # None
        /\ timer[active_combats[t]] # None

\* the instance a successful start_combat of this state allocates
NewSlot == CHOOSE f \in FreeSlots(Spare(CS)) : \A g \in FreeSlots(Spare(CS)) : f <= g

TeamIds(inst, n) ==
    {inst.combatants[j].character_id :
        j \in {m \in 1..Len(inst.combatants) : inst.combatants[m].team = n}}

\* the start_combat calls a command can make: a target in the initiator's room
StartPairs ==
    {at \in ThePlayers \X DOMAIN hp :
        /\ at[1] # at[2]
        /\ HasSession(sessions, at[1])
        /\ at[2] \in TheNpcs \/ InRoom(at[2], SessionRoom(sessions, at[1]))}

\* C10 as stated: after a successful start_combat team 0 is the initiator and
\* all party members in the room, team 1 the target and all its party members
\* in the room or the one NPC, and every combatant id is in the index
C10_TeamsAsStated ==
    \A at \in StartPairs :
        LET a == at[1]
            t == at[2]
            r == SessionRoom(sessions, a)
        IN \A o \in start_combat(Spare(CS), a, t, r) :
             o.msg = "started" =>
               LET inst == o.combats[NewSlot]
               IN /\ TeamIds(inst, 0) = {m \in Allies(a) : InRoom(m, r)}
                  /\ TeamIds(inst, 1) = IF t \in TheNpcs THEN {t}
                                        ELSE {m \in Allies(t) : InRoom(m, r)}
                  /\ \A c \in CombatantIds(inst) : o.active_combats[c] = NewSlot

\* C10 amended: the teams hold the initiator or target and those of their
\* party members in the room who are not already in combat, an NPC target is
\* the one combatant of team 1, every combatant id is in the index when the
\* instance is registered, and after the opening turn either every id still is
\* or the encounter is over and none is
C10_TeamsOfFreeMembers ==
    \A at \in StartPairs :
        LET a == at[1]
            t == at[2]
            r == SessionRoom(sessions, a)
            built == build_combatants(active_combats, a, t, r)
        IN /\ \A rolls \in [1..Len(built) -> 1..DieSides] :
                LET reg == register_combat(Spare(CS), NewSlot, built, r, rolls)
                IN \A c \in CombatantIds(reg.combats[NewSlot]) :
                      reg.active_combats[c] = NewSlot
           /\ \A o \in start_combat(Spare(CS), a, t, r) :
                o.msg = "started" =>
                  LET inst == o.combats[NewSlot]
                  IN /\ TeamIds(inst, 0) =
                          {m \in Allies(a) : InRoom(m, r) /\ active_combats[m] = None}
                     /\ TeamIds(inst, 1) =
                          IF t \in TheNpcs THEN {t}
                          ELSE {m \in Allies(t) : InRoom(m, r) /\ active_combats[m] = None}
                     /\ t \in TheNpcs =>
                          Cardinality({j \in 1..Len(inst.combatants) :
                                         inst.combatants[j].is_npc}) = 1
                     /\ \/ \A c \in CombatantIds(inst) : o.active_combats[c] = NewSlot
                        \/ /\ is_over(inst)
                           /\ \A c \in CombatantIds(inst) : o.active_combats[c] = None

\* a free player can start a fight while a party member in the room is fighting
C10_Witness ==
    \E a \in ThePlayers : \E m \in Allies(a) \ {a} :
        /\ active_combats[a] = None /\ active_combats[m] # None
        /\ InRoom(m, SessionRoom(sessions, a))
        /\ \E o \in start_combat(Spare(CS), a, CHOOSE n \in TheNpcs : TRUE,
                                 SessionRoom(sessions, a)) : o.msg = "started"

\* the argument strings a combat command is tried with
CombatArgs == {NoName} \cup {Name(t) : t \in DOMAIN hp}

\* player c is in an instance and that instance's current combatant is c
IsCurrent(c) ==
    /\ active_combats[c] # None
    /\ current_combatant(combats[active_combats[c]]).key # 0
    /\ current_combatant(combats[active_combats[c]]).character_id = c

\* C11: a combat command of a player who is in an instance but is not its
\* current combatant returns only "not your turn" and leaves the whole combat
\* state as it was: turn index, round, combatants and their flags, health
\* values and the pending turn timer
C11_NotYourTurnChangesNothing ==
    \A c \in ThePlayers :
        (active_combats[c] # None /\ ~IsCurrent(c)) =>
            \A verb \in Verbs : \A arg \in CombatArgs : \A fled \in BOOLEAN :
                handle_combat_input(CS, c, verb, arg, fled) = {Msg(CS, "not_your_turn")}

\* a player in an instance is not its current combatant while the timer of
\* the current combatant is pending
C11_Witness ==
    \E c \in ThePlayers :
        /\ active_combats[c] # None /\ ~IsCurrent(c)
        /\ timer[active_combats[c]] # None
        /\ timer[active_combats[c]] # c

\* C12: an unrecognised verb from the current combatant returns the help hint
\* and leaves the whole combat state as it was, the pending turn timer included
C12_HelpChangesNothing ==
    \A c \in ThePlayers :
        IsCurrent(c) =>
            handle_combat_input(CS, c, "dance", NoName, FALSE) = {Msg(CS, "help")}

\* the positions in the combatant list of the standing combatants of the
\* teams other than the attacker's
FoePositions(inst, attacker) ==
    {j \in 1..Len(inst.combatants) :
        /\ ~inst.combatants[j].is_knocked_out
        /\ inst.combatants[j].team # attacker.team}

\* C13: for every standing combatant as attacker and every target name, the
\* defender is a standing combatant of another team: the first in list order
\* when no name is given, else the first whose name equals the given one up
\* to case; a hit changes the health of the defender only; a name matching no
\* standing enemy is rejected with an error, health and turn unchanged
C13_AttackTargetsLivingEnemy ==
    \A i \in TheSlots : Live(i) =>
      \A a \in 1..Len(combats[i].combatants) :
        LET inst == combats[i]
            attacker == inst.combatants[a]
            foes == FoePositions(inst, attacker)
        IN (~attacker.is_knocked_out /\ foes # {}) =>
             \A raw \in CombatArgs \cup {Lower(n) : n \in CombatArgs} :
               LET d == attack_defender(inst, attacker, Lower(raw))
                   matching == {j \in foes :
                                  Lower(Name(inst.combatants[j].character_id)) = Lower(raw)}
                   first(S) == CHOOSE j \in S : \A m \in S : j <= m
               IN /\ raw = NoName => d = inst.combatants[first(foes)]
                  /\ (raw # NoName /\ matching # {}) => d = inst.combatants[first(matching)]
                  /\ (raw # NoName /\ matching = {}) =>
                        /\ d = NoCombatant
                        /\ (~attacker.is_npc /\ current_combatant(inst).key = attacker.key
                               /\ active_combats[attacker.character_id] = i) =>
                              \A o \in handle_combat_input(CS, attacker.character_id,
                                                           "attack", raw, FALSE) :
                                 /\ o.msg = "invalid_target"
                                 /\ o.hp = hp /\ o.char_ko = char_ko
                                 /\ o.combats = combats
                  /\ d # NoCombatant =>
                        \A damage \in 1..3 :
                           \A c \in DOMAIN hp \ {d.character_id} :
                              apply_hit(CS, i, d, damage).hp[c] = hp[c]

\* the current player faces two combatants of the other team, one knocked out
C13_Witness ==
    \E c \in ThePlayers :
        /\ IsCurrent(c)
        /\ LET inst == combats[active_combats[c]]
               cur == current_combatant(inst)
           IN /\ \E j \in 1..Len(inst.combatants) :
                    inst.combatants[j].team # cur.team /\ inst.combatants[j].is_knocked_out
              /\ FoePositions(inst, cur) # {}

\* C14: every health value is >= 0; a hit that takes the defender's health
\* to 0 or below leaves it at 0 with the combatant and the character marked
\* knocked out, before the end check and the turn advance; a smaller hit only
\* subtracts; a miss changes no health and the turn still moves on
C14_HealthClampedAndKnockout ==
    /\ \A c \in DOMAIN hp : hp[c] >= 0
    /\ \A i \in TheSlots : Live(i) =>
         \A a \in 1..Len(combats[i].combatants) :
           LET inst == combats[i]
               attacker == inst.combatants[a]
           IN ~attacker.is_knocked_out =>
                \A j \in FoePositions(inst, attacker) :
                  LET d == inst.combatants[j]
                      c == d.character_id
                      rolls == calculate_damage(BaseAttack(attacker.character_id),
                                                WeaponBonus(attacker.character_id),
                                                HitChancePct(attacker.character_id),
                                                d.is_defending)
                  IN \A o \in rolls :
                       IF o.did_hit
                       THEN LET r == apply_hit(CS, i, d, o.damage)
                            IN /\ r.hp[c] >= 0
                               /\ hp[c] - o.damage <= 0 =>
                                    /\ r.hp[c] = 0
                                    /\ r.char_ko[c]
                                    /\ r.combats[i].combatants[j].is_knocked_out
                               /\ hp[c] - o.damage > 0 =>
                                    /\ r.hp[c] = hp[c] - o.damage
                                    /\ r.char_ko = char_ko
                                    /\ r.combats = combats
                       ELSE \A r \in resolve_attack(CS, i, attacker.key, d, o) :
                              /\ \/ r.combats[i].current_turn_index # inst.current_turn_index
                                 \/ r.combats[i].round_number # inst.round_number
                                 \/ \A x \in DOMAIN r.active_combats : r.active_combats[x] # i
                              /\ (\A k \in 1..Len(inst.combatants) : ~inst.combatants[k].is_npc)
                                    => r.hp = hp

\* a combatant of a registered instance has been knocked out by a hit
C14_Witness ==
    \E i \in TheSlots :
        /\ Live(i)
        /\ \E j \in 1..Len(combats[i].combatants) :
              /\ combats[i].combatants[j].is_knocked_out
              /\ hp[combats[i].combatants[j].character_id] = 0
              /\ char_ko[combats[i].combatants[j].character_id]

\* the teams left standing in inst once the combatant with key k is taken out
TeamsWithout(inst, k) ==
    {inst.combatants[j].team :
        j \in {m \in 1..Len(inst.combatants) :
                 inst.combatants[m].key # k /\ ~inst.combatants[m].is_knocked_out}}

\* the ids of the combatants of inst other than the one with key k
IdsWithout(inst, k) ==
    {inst.combatants[j].character_id :
        j \in {m \in 1..Len(inst.combatants) : inst.combatants[m].key # k}}

\* C15: after a successful flee of the current combatant c, c is not in the
\* instance's combatant list and not in the index; when the flee left at most
\* one team standing the encounter has ended, otherwise every other combatant
\* is still registered to the instance
C15_FleeFreesOnlyTheFleer ==
    \A c \in ThePlayers :
        IsCurrent(c) =>
            LET i == active_combats[c]
                inst == combats[i]
                cur == current_combatant(inst)
            IN \A o \in handle_combat_input(CS, c, "flee", NoName, TRUE) :
                 /\ c \notin CombatantIds(o.combats[i])
                 /\ o.active_combats[c] = None
                 /\ IF Cardinality(TeamsWithout(inst, cur.key)) <= 1
                    THEN \A x \in DOMAIN o.active_combats : o.active_combats[x] # i
                    ELSE \A x \in IdsWithout(inst, cur.key) \ {c} : o.active_combats[x] = i

\* the 0-based position in the list of standing combatants of the first
\* combatant of inst with the character id c; -1 when it is not standing
ActivePosition(inst, c) ==
    LET active == get_active_combatants(inst)
        at == {j \in 1..Len(active) : active[j].character_id = c}
    IN IF at = {} THEN -1 ELSE (CHOOSE j \in at : \A m \in at : j <= m) - 1

\* C16: remove_player(c) takes c out of its instance and out of the index;
\* when c stood before the current pointer the turn index is decremented and,
\* unless the encounter ends, the current combatant is the same as before;
\* the encounter ends when the removal leaves at most one team standing
C16_RemovePlayerKeepsCurrent ==
    \A c \in ThePlayers :
        (active_combats[c] # None /\ ActivePosition(combats[active_combats[c]], c) >= 0) =>
            LET i == active_combats[c]
                inst == combats[i]
                cur == current_combatant(inst)
                o == remove_player(CS, c)
                ended == \A x \in DOMAIN o.active_combats : o.active_combats[x] # i
            IN /\ o.active_combats[c] = None
               /\ ActivePosition(inst, c) < inst.current_turn_index =>
                    /\ o.combats[i].current_turn_index = inst.current_turn_index - 1
                    /\ ~ended => current_combatant(o.combats[i]).key = cur.key
               /\ ended <=> is_over(o.combats[i])

\* SpecDuo: players 1 and 2 in a party fight the NPC together, one instance object
InitDuo ==
    /\ InitWorld(1..2)
    /\ parties = <<[leader |-> 1, members |-> <<1, 2>>]>>
    /\ invites = [c \in 1..2 |-> None]
    /\ InitCombat(1..2, {1})
    /\ loop = TRUE
    /\ InitRooms

NextDuo ==
    \/ \E a \in ThePlayers : \E t \in TheNpcs : StartCombat(a, t, SessionRoom(sessions, a))
    \/ \E c \in ThePlayers : AnyCombatInput(c, Verbs)
    \/ \E i \in TheSlots : TurnTimeout(i)
    \/ \E r \in recoveries : Recover(r)
    \/ \E c \in ThePlayers : CombatRemovePlayer(c)

\* the recovery tasks that can be pending in SpecDuo
DuoRecoveryTasks == [inst : {1}, key : 1..3, cid : 1..2]

\* LiveDuo: SpecDuo with every pending recovery task eventually run
LiveDuo ==
    /\ InitDuo /\ [][NextDuo]_vars
    /\ \A r \in DuoRecoveryTasks : WF_vars(Recover(r))

\* every knocked-out player character has a recovery task pending, and no
\* recovery task is for an NPC
KnockoutsHaveRecovery ==
    /\ \A c \in ThePlayers : char_ko[c] => \E r \in recoveries : r.cid = c
    /\ \A r \in recoveries : r.cid \in ThePlayers
    /\ \A c \in TheNpcs : \A r \in recoveries : r.cid # c

\* a recovery task that ends in the step leaves its character with health 1
\* and not knocked out, and its combatant, where still listed, not knocked out
RecoveryRestores ==
    \A r \in recoveries :
        r \notin recoveries' =>
            /\ hp'[r.cid] = 1
            /\ ~char_ko'[r.cid]
            /\ \A j \in 1..Len(combats'[r.inst].combatants) :
                 combats'[r.inst].combatants[j].key = r.key =>
                    ~combats'[r.inst].combatants[j].is_knocked_out

OverPlayers == 1..3
OverTeams == 0..2

\* a CombatInstance of the first n players, with the given teams and flags
OverInstance(n, team, ko) ==
    [CombatInstance(1) EXCEPT
        !.combatants = [j \in 1..n |->
            [Combatant(j, j, team[j], FALSE) EXCEPT !.is_knocked_out = ko[j]]]]

InitOver ==
    /\ InitWorld(OverPlayers)
    /\ parties = <<>>
    /\ invites = [c \in OverPlayers |-> None]
    /\ \E n \in 0..Cardinality(OverPlayers) :
         \E team \in [1..n -> OverTeams], ko \in [1..n -> BOOLEAN] :
            /\ combats = [i \in {1} |-> OverInstance(n, team, ko)]
            /\ active_combats = [c \in OverPlayers \cup NpcIds |-> IF c \in 1..n THEN 1 ELSE None]
            /\ char_ko = [c \in OverPlayers \cup NpcIds |-> IF c \in 1..n THEN ko[c] ELSE FALSE]
            /\ hp = [c \in OverPlayers \cup NpcIds |-> IF c \in 1..n /\ ko[c] THEN 0 ELSE MaxHp]
    /\ timer = [i \in {1} |-> None]
    /\ timer_tasks = [i \in {1} |-> <<>>]
    /\ recoveries = {}
    /\ stats = [c \in OverPlayers \cup NpcIds |-> DefaultStats]
    /\ loop = TRUE
    /\ InitRooms

NextOver ==
    \/ \E c \in ThePlayers : CombatRemovePlayer(c)
    \/ \E c \in ThePlayers : AnyCombatInput(c, {"defend"})
    \/ \E i \in TheSlots : TurnTimeout(i)

SpecOver == InitOver /\ [][NextOver]_vars

\* the combatants of inst that are not knocked out
Standing(inst) == {j \in 1..Len(inst.combatants) : ~inst.combatants[j].is_knocked_out}

\* two combatants of different teams are both standing
TwoTeamsStanding(inst) ==
    \E j, k \in Standing(inst) : inst.combatants[j].team # inst.combatants[k].team

\* C18: is_over() of an instance is true exactly when no two standing
\* combatants are of different teams, whatever the teams and knockout flags,
\* the instance with nobody standing included
C18_OverIffOneTeamStanding ==
    \A i \in TheSlots : is_over(combats[i]) <=> ~TwoTeamsStanding(combats[i])

\* an instance lists two teams, one of them only by a knocked-out combatant,
\* and is over
C18_Witness ==
    \E i \in TheSlots :
        /\ is_over(combats[i])
        /\ Standing(combats[i]) # {}
        /\ \E j \in 1..Len(combats[i].combatants) : \E k \in Standing(combats[i]) :
              /\ combats[i].combatants[j].is_knocked_out
              /\ combats[i].combatants[j].team # combats[i].combatants[k].team

\* SpecDamage: players 1 and 2 duel; player 1's base attack and weapon are
\* drawn, and both start with health enough to take several hits
DamageHp == 20
DamageStats == [base_attack : {0, 1, 10}, bonus : {0, 5}, hit_pct : {75, 100}]

InitDamage ==
    /\ InitWorld(1..2)
    /\ parties = <<>>
    /\ invites = [c \in 1..2 |-> None]
    /\ active_combats = [c \in 1..2 |-> None]
    /\ combats = [i \in {1} |-> NoInstance]
    /\ timer = [i \in {1} |-> None]
    /\ timer_tasks = [i \in {1} |-> <<>>]
    /\ recoveries = {}
    /\ hp = [c \in 1..2 |-> DamageHp]
    /\ char_ko = [c \in 1..2 |-> FALSE]
    /\ \E st \in DamageStats : stats = [c \in 1..2 |-> IF c = 1 THEN st ELSE DefaultStats]
    /\ loop = TRUE
    /\ InitRooms

NextDamage ==
    \/ \E a \in ThePlayers : \E t \in ThePlayers \ {a} : StartCombat(a, t, SessionRoom(sessions, a))
    \/ \E c \in ThePlayers : AnyCombatInput(c, {"attack", "defend"})
    \/ \E i \in TheSlots : TurnTimeout(i)
    \/ \E r \in recoveries : Recover(r)

SpecDamage == InitDamage /\ [][NextDamage]_vars

\* floor(d / 2), by its defining inequalities
HalfDown(d) == CHOOSE q \in 0..d : 2 * q <= d /\ d < 2 * q + 2

\* the damage of a hit as stated: at least 1, halved and again at least 1
\* against a defending target
StatedDamage(base, bonus, v, defending) ==
    LET raw == base + bonus + v
        damage == IF raw < 1 THEN 1 ELSE raw
        halved == IF HalfDown(damage) < 1 THEN 1 ELSE HalfDown(damage)
    IN IF defending THEN halved ELSE damage

\* C19: for the stats of every character and either stance of the target, the
\* hits _calculate_damage can return are max(1, base + bonus + v) for v in
\* -2..2, halved (floor, at least 1) against a defending target; so a hit
\* does at least 1, a defended hit never does more than the undefended hit of
\* the same v, and base 10 with bonus 5 does 13..17 undefended
C19_DamageFormula ==
    \A c \in DOMAIN stats : \A defending \in BOOLEAN :
        LET base == BaseAttack(c)
            bonus == WeaponBonus(c)
            hits == {o \in calculate_damage(base, bonus, HitChancePct(c), defending) : o.did_hit}
        IN /\ {o.damage : o \in hits} = {StatedDamage(base, bonus, v, defending) : v \in -2..2}
           /\ \A o \in hits : o.damage >= 1
           /\ \A v \in -2..2 :
                 damage_for(base, bonus, v, TRUE) <= damage_for(base, bonus, v, FALSE)
           /\ (base = 10 /\ bonus = 5 /\ ~defending) => {o.damage : o \in hits} = 13..17
           /\ HitChancePct(c) = 100 =>
                 \A o \in calculate_damage(base, bonus, HitChancePct(c), defending) : o.did_hit

\* player 1, with base attack 10 and weapon bonus 5, has hit player 2 while
\* player 2 was defending: a halved hit of 6..8
C19_Witness ==
    /\ BaseAttack(1) = 10 /\ WeaponBonus(1) = 5
    /\ hp[2] \in (DamageHp - 8)..(DamageHp - 6)

\* SpecInvite: five players, players 1 to 3 online in room 1, players 4 and 5
\* each in room 1, in room 2 or offline; nobody partied, or 1..4 a party
InvitePlayers == 1..5
InvitePlaces == [4..5 -> {None} \cup Rooms]

\* the players whose invite commands are enumerated in SpecInvite
InviteSenders == {1, 5}

PlaceOf(place, c) == IF c \in DOMAIN place THEN place[c] ELSE 1

InitInvite ==
    /\ \E place \in InvitePlaces :
         /\ sessions = SelectSeq([j \in InvitePlayers |-> [cid |-> j, room |-> PlaceOf(place, j)]],
                                 LAMBDA e : e.room # None)
         /\ present_players =
               [r \in Rooms |-> SelectSeq([j \in InvitePlayers |-> j],
                                          LAMBDA c : PlaceOf(place, c) = r)]
         /\ \/ parties = <<>>
            \/ /\ place[4] # None
               /\ parties = <<[leader |-> 1, members |-> <<1, 2, 3, 4>>]>>
    /\ invites = [c \in InvitePlayers |-> None]
    /\ InitCombat(InvitePlayers, {1})
    /\ loop = TRUE
    /\ InitRooms

NextInvite ==
    \/ \E a \in InviteSenders, b \in ThePlayers : Invite(a, b)
    \/ \E c \in ThePlayers : Accept(c)
    \/ \E c \in ThePlayers : Decline(c)

SpecInvite == InitInvite /\ [][NextInvite]_vars

\* c is listed in some party
InSomeParty(c) == \E k \in 1..Len(parties) : c \in Range(parties[k].members)

\* the number of members of the party c is listed in, 1 when in none
PartySizeOf(c) ==
    IF InSomeParty(c)
    THEN Len(parties[CHOOSE k \in 1..Len(parties) : c \in Range(parties[k].members)].members)
    ELSE 1

\* both online in one room, the invitee unpartied and uninvited, the inviter's
\* party below the cap
MayInvite(a, b) ==
    /\ \E i, j \in 1..Len(sessions) :
          sessions[i].cid = a /\ sessions[j].cid = b /\ sessions[i].room = sessions[j].room
    /\ ~InSomeParty(b)
    /\ invites[b] = None
    /\ PartySizeOf(a) < 4

\* C20: invite(inviter, invitee) records the invite, and says so, exactly when
\* both have sessions in the same room, the invitee is in no party and has no
\* pending invite, and the inviter's party has fewer than 4 members; otherwise
\* it returns an error and leaves the invite table as it was, so a pending
\* invite is never overwritten; the parties are never changed
C20_InvitePreconditions ==
    \A a, b \in ThePlayers :
        LET o == invite(PS, sessions, a, b)
        IN /\ o.parties = parties
           /\ IF MayInvite(a, b)
              THEN /\ o.msg = "invite_sent"
                   /\ o.invites[b] = a
                   /\ \A c \in ThePlayers \ {b} : o.invites[c] = invites[c]
              ELSE /\ o.msg \in {"player_not_found", "not_in_room", "already_in_party",
                                  "party_full", "invite_pending"}
                   /\ o.invites = invites

\* an invite is pending for a player whom another player of the same room,
\* with room in the party, could otherwise invite
C20_Witness ==
    \E a, b \in ThePlayers :
        /\ invites[b] # None /\ invites[b] # a
        /\ HasSession(sessions, a) /\ HasSession(sessions, b)
        /\ SessionRoom(sessions, a) = SessionRoom(sessions, b)
        /\ ~InSomeParty(b)
        /\ PartySizeOf(a) < 4
        /\ invite(PS, sessions, a, b).msg = "invite_pending"

\* the member list of the party c is listed in before the call, [c] when in none
MembersBefore(c) == get_party_members(parties, c)

\* C21: accept with a pending invite consumes the invite in every outcome; on
\* success the accepter is appended at the end of the inviter's party, created
\* as [inviter] when the inviter had none, and get_party_members then returns
\* the same list for inviter and accepter; accept and decline without a
\* pending invite change neither the invite table nor the parties
C21_AcceptJoinsInvitersParty ==
    \A c \in ThePlayers :
        LET o == accept(PS, sessions, c)
            d == decline(PS, c)
            inviter == invites[c]
        IN IF inviter = None
           THEN /\ o.invites = invites /\ o.parties = parties
                /\ d.invites = invites /\ d.parties = parties
           ELSE /\ o.invites = [invites EXCEPT ![c] = None]
                /\ d.invites = [invites EXCEPT ![c] = None]
                /\ d.parties = parties
                /\ o.msg = "joined_party" =>
                     /\ get_party_members(o.parties, inviter) = Append(MembersBefore(inviter), c)
                     /\ get_party_members(o.parties, c) = get_party_members(o.parties, inviter)

\* the members of c's party other than c, in list order
Remaining(c) == SelectSeq(MembersBefore(c), LAMBDA m : m # c)

\* C22: leave_party(c) of a character in no party changes nothing; otherwise c
\* is taken off its party and, with rest the other members in their order,
\* a leader leaving two or more makes rest[1] the leader of a party rest,
\* a leader leaving one, or a member leaving only the leader, disbands the
\* party so that nobody of rest is in any party, and a member leaving two or
\* more leaves the party rest under its leader
C22_LeavePromotesOrDisbands ==
    \A c \in ThePlayers :
        LET o == leave_party(PS, c)
            leader == find_party_leader(parties, c)
            rest == Remaining(c)
        IN /\ o.invites = invites
           /\ IF leader = None THEN o.parties = parties
              ELSE IF Len(rest) >= 2
              THEN LET head == IF c = leader THEN rest[1] ELSE leader
                   IN /\ HasParty(o.parties, head)
                      /\ PartyMembers(o.parties, head) = rest
                      /\ \A m \in Range(rest) : find_party_leader(o.parties, m) = head
              ELSE \A m \in Range(rest) : find_party_leader(o.parties, m) = None

\* the same, asked only where every character is listed in at most one
\* party and at most once
C22_WhereListedOnce ==
    (\A x \in ThePlayers :
        Cardinality({kj \in (1..Len(parties)) \X (1..(MAX_PARTY_SIZE + 1)) :
                       /\ kj[2] <= Len(parties[kj[1]].members)
                       /\ parties[kj[1]].members[kj[2]] = x}) <= 1)
    => C22_LeavePromotesOrDisbands

\* C23: after the party service's remove_player(c), c has no pending invite
\* and is a member of no party, whether or not c was in a party before
C23_RemovePlayerClearsInviteAndParty ==
    \A c \in ThePlayers :
        LET o == party_remove_player(PS, c)
        IN /\ o.invites[c] = None
           /\ \A k \in 1..Len(o.parties) : c \notin Range(o.parties[k].members)

\* SpecMembers: four players online in room 1; player 1 gathers a party while
\* the others move between the rooms or disconnect; a disconnect runs
\* WorldManager.leave only, so a party keeps the members that went offline
MemberPlayers == 1..4

InitMembers ==
    /\ InitWorld(MemberPlayers)
    /\ parties = <<>>
    /\ invites = [c \in MemberPlayers |-> None]
    /\ InitCombat(MemberPlayers, {1})
    /\ loop = TRUE
    /\ InitRooms

NextMembers ==
    \/ \E c \in ThePlayers \ {1} : Leave(c)
    \/ \E c \in ThePlayers \ {1}, r \in Rooms : MovePlayer(c, r)
    \/ \E b \in ThePlayers : Invite(1, b)
    \/ \E c \in ThePlayers : Accept(c)
    \/ \E c \in ThePlayers : LeaveParty(c)

SpecMembers == InitMembers /\ [][NextMembers]_vars

\* the positions of c's member list whose member has a session in room r
PositionsInRoom(c, r) ==
    {p \in 1..Len(MembersBefore(c)) :
        \E i \in 1..Len(sessions) :
            sessions[i].cid = MembersBefore(c)[p] /\ sessions[i].room = r}

\* C24: get_party_members_in_room(c, room) lists the members of c's party, or
\* c alone when c is in no party, that have a session in that room, each as
\* often as the party lists it and in the party's order; nobody in another
\* room, nobody without a session and nobody outside the party is listed
C24_MembersInRoom ==
    \A c \in ThePlayers, r \in Rooms :
        LET res == get_party_members_in_room(parties, sessions, c, r)
            pos == PositionsInRoom(c, r)
        IN /\ Len(res) = Cardinality(pos)
           /\ \A n \in 1..Len(res) :
                 \E p \in pos :
                    /\ MembersBefore(c)[p] = res[n]
                    /\ Cardinality({q \in pos : q < p}) = n - 1
           /\ \A m \in Range(res) :
                 /\ HasSession(sessions, m) /\ SessionRoom(sessions, m) = r
                 /\ m \in Range(MembersBefore(c))

\* player 1's party has a member in the other room and a member offline, a
\* player outside the party stands in player 1's room, and the call returns
\* player 1 alone
C24_Witness ==
    /\ HasSession(sessions, 1)
    /\ \E m, n \in Range(MembersBefore(1)) \ {1} :
          /\ ~HasSession(sessions, m)
          /\ HasSession(sessions, n) /\ SessionRoom(sessions, n) # SessionRoom(sessions, 1)
    /\ \E x \in ThePlayers \ Range(MembersBefore(1)) :
          HasSession(sessions, x) /\ SessionRoom(sessions, x) = SessionRoom(sessions, 1)
    /\ get_party_members_in_room(parties, sessions, 1, SessionRoom(sessions, 1)) = <<1>>

\* SpecItems: players 1 and 2 online in room 1, player 3 without a session,
\* two items on the floor of room 1
ItemIds == {1, 2}

CommitItems(o) ==
    /\ present_items' = o.present_items
    /\ inventory' = o.inventory
    /\ delivered' = o.delivered
    /\ UNCHANGED <<worldVars, partyVars, combatVars, stats, loop, connected_rooms>>

Pickup(c, item, room) == CommitItems(pickup_item(IS, sessions, c, item, room))

Drop(c, item, room) == CommitItems(drop_item(IS, sessions, c, item, room))

InitItems ==
    /\ InitWorld(1..2)
    /\ parties = <<>>
    /\ invites = [c \in 1..3 |-> None]
    /\ InitCombat(1..3, {1})
    /\ loop = TRUE
    /\ present_items = [r \in Rooms |-> IF r = 1 THEN <<1, 2>> ELSE <<>>]
    /\ inventory = [c \in PlayerIds |-> <<>>]
    /\ delivered = <<>>
    /\ connected_rooms = [r \in Rooms |-> [d \in Directions |-> None]]

NextItems ==
    \/ \E c \in ThePlayers, item \in ItemIds, room \in Rooms : Pickup(c, item, room)
    \/ \E c \in ThePlayers, item \in ItemIds, room \in Rooms : Drop(c, item, room)
    \/ \E c \in ThePlayers, r \in Rooms : MovePlayer(c, r)

SpecItems == InitItems /\ [][NextItems]_vars

\* the number of places (room floors and inventories) item is listed in
Places(st, item) ==
    Cardinality({r \in Rooms : item \in Range(st.present_items[r])})
    + Cardinality({c \in DOMAIN st.inventory : item \in Range(st.inventory[c])})

\* C25: every pickup_item and drop_item call returns True or False and raises
\* nothing, a caller without a session included; on True the item has moved
\* between the room's list and the caller's inventory, on False the room
\* items and the inventories are unchanged; every item is in exactly one
\* place; of two players picking up an item lying in a room, one after the
\* other, exactly one succeeds
C25_ItemMovesAreAllOrNothing ==
    /\ \A item \in ItemIds : Places(IS, item) = 1
    /\ \A c \in ThePlayers, item \in ItemIds, room \in Rooms :
         LET p == pickup_item(IS, sessions, c, item, room)
             d == drop_item(IS, sessions, c, item, room)
         IN /\ p.result \in {"True", "False"}
            /\ d.result \in {"True", "False"}
            /\ p.result = "True" =>
                 /\ item \in Range(present_items[room])
                 /\ item \notin Range(p.present_items[room])
                 /\ p.inventory[c] = Append(inventory[c], item)
            /\ d.result = "True" =>
                 /\ item \in Range(inventory[c])
                 /\ item \notin Range(d.inventory[c])
                 /\ d.present_items[room] = Append(present_items[room], item)
            /\ p.result = "False" =>
                 p.present_items = present_items /\ p.inventory = inventory
            /\ d.result = "False" =>
                 d.present_items = present_items /\ d.inventory = inventory
            /\ \A item2 \in ItemIds : Places(p, item2) = 1 /\ Places(d, item2) = 1
    /\ \A a, b \in ThePlayers, item \in ItemIds, room \in Rooms :
         (/\ HasSession(sessions, a) /\ HasSession(sessions, b)
          /\ item \in Range(present_items[room])) =>
            LET first == pickup_item(IS, sessions, a, item, room)
                second == pickup_item(first, sessions, b, item, room)
            IN first.result = "True" /\ second.result = "False"

\* SpecBroadcast: three players join, leave and move between the rooms, and
\* messages are broadcast to a room with or without an excluded id
BroadcastPlayers == 1..3

Broadcast(room, exclude) ==
    /\ delivered' = broadcast_to_room(sessions, room, exclude)
    /\ UNCHANGED <<worldVars, partyVars, combatVars, stats, loop, itemVars, connected_rooms>>

InitBroadcast ==
    /\ sessions = <<>>
    /\ present_players = [r \in Rooms |-> <<>>]
    /\ parties = <<>>
    /\ invites = [c \in BroadcastPlayers |-> None]
    /\ InitCombat(BroadcastPlayers, {1})
    /\ loop = TRUE
    /\ InitRooms

NextBroadcast ==
    \/ \E c \in ThePlayers, r \in Rooms :
         Len(present_players[r]) < MaxPresent /\ Join(c, r)
    \/ \E c \in ThePlayers : Leave(c)
    \/ \E c \in ThePlayers, r \in Rooms :
         Len(present_players[r]) < MaxPresent /\ MovePlayer(c, r)
    \/ \E r \in Rooms, x \in ThePlayers \cup {None} : Broadcast(r, x)

SpecBroadcast == InitBroadcast /\ [][NextBroadcast]_vars

\* the position of c's session in the registry
SessionIndex(c) == CHOOSE i \in 1..Len(sessions) : sessions[i].cid = c

\* broadcast_to_room(room, message, exclude) calls back once every session
\* whose room is the room, the excluded id left out, calls back no session of
\* another room, and does so in the order of the session registry
BroadcastInRegistryOrder ==
    \A r \in Rooms, x \in ThePlayers \cup {None} :
        LET res == broadcast_to_room(sessions, r, x)
        IN /\ \A c \in ThePlayers :
                Count(res, c) = IF /\ c # x
                                   /\ \E i \in 1..Len(sessions) :
                                         sessions[i].cid = c /\ sessions[i].room = r
                                THEN 1 ELSE 0
           /\ Range(res) \subseteq ThePlayers
           /\ \A m, n \in 1..Len(res) :
                m < n => SessionIndex(res[m]) < SessionIndex(res[n])

\* C26: broadcast_to_room calls back once every session of the room but the
\* excluded one and no other session, in the order the sessions were
\* registered by join: the session a join has just registered is the last
\* one a broadcast to its room calls back
C26_BroadcastInJoinOrder ==
    /\ BroadcastInRegistryOrder
    /\ \A c \in ThePlayers, r \in Rooms :
         LET res == broadcast_to_room(join(WS, c, r).sessions, r, None)
         IN res[Len(res)] = c

\* the latest broadcast went to two sessions of a room, registered in another
\* order than that of their ids, while a third session was left out as the
\* excluded one or as standing in the other room
BroadcastSeen ==
    /\ Len(delivered) = 2
    /\ delivered[1] > delivered[2]
    /\ Len(sessions) = 3
    /\ delivered = broadcast_to_room(sessions, SessionRoom(sessions, delivered[1]),
                                     CHOOSE c \in ThePlayers : c \notin Range(delivered))

\* SpecRooms: three rooms are wired by add_connection calls in the four
\* cardinal directions, between any two rooms and from a room to itself
GraphRooms == 1..3
Cardinals == {1, 3, 5, 7}

AddConnection(a, b, d) ==
    /\ connected_rooms' = add_connection(connected_rooms, a, b, d).connected_rooms
    /\ UNCHANGED <<worldVars, partyVars, combatVars, stats, loop, itemVars, delivered>>

InitGraph ==
    /\ InitWorld(1..2)
    /\ parties = <<>>
    /\ invites = [c \in 1..2 |-> None]
    /\ InitCombat(1..2, {1})
    /\ loop = TRUE
    /\ present_items = [r \in Rooms |-> <<>>]
    /\ inventory = [c \in PlayerIds |-> <<>>]
    /\ delivered = <<>>
    /\ connected_rooms = [r \in GraphRooms |-> [d \in Directions |-> None]]

NextGraph == \E a, b \in DOMAIN connected_rooms, d \in Cardinals : AddConnection(a, b, d)

SpecRooms == InitGraph /\ [][NextGraph]_vars

\* the direction turned by 180 degrees, by the compass: four steps of eight
Turned(d) == IF d + 4 > 8 THEN d - 4 ELSE d + 4

\* every filled exit has its way back
ExitsSymmetric ==
    \A a \in DOMAIN connected_rooms, d \in Directions :
        connected_rooms[a][d] # None =>
            connected_rooms[connected_rooms[a][d]][Turned(d)] = a

\* add_connection raises and changes nothing when the source's slot or the
\* destination's opposite slot is filled, and otherwise fills exactly these two
AddConnectionChecksBothSlots ==
    \A a, b \in DOMAIN connected_rooms, d \in Directions :
        LET o == add_connection(connected_rooms, a, b, d)
        IN IF connected_rooms[a][d] # None \/ connected_rooms[b][Turned(d)] # None
           THEN o.result = "ValueError" /\ o.connected_rooms = connected_rooms
           ELSE /\ o.result = "None"
                /\ o.connected_rooms[a][d] = b
                /\ o.connected_rooms[b][Turned(d)] = a
                /\ \A r \in DOMAIN connected_rooms, e \in Directions :
                      (<<r, e>> # <<a, d>> /\ <<r, e>> # <<b, Turned(d)>>) =>
                         o.connected_rooms[r][e] = connected_rooms[r][e]

\* a filled exit keeps its destination
NoSlotOverwritten ==
    \A a \in DOMAIN connected_rooms, d \in Directions :
        connected_rooms[a][d] # None => connected_rooms'[a][d] = connected_rooms[a][d]

\* C27: after any add_connection calls every filled exit is symmetric; a call
\* whose slot on the source or whose opposite slot on the destination is
\* filled raises and changes no exits; no filled slot is ever overwritten
C27_ExitsSymmetricAndKept ==
    /\ [](ExitsSymmetric /\ AddConnectionChecksBothSlots)
    /\ [][NoSlotOverwritten]_vars

\* an exit is filled and a call from a third room is refused only because
\* the destination's opposite slot is taken
C27_Witness ==
    \E a, b, c \in DOMAIN connected_rooms, d \in Directions :
        /\ a # c
        /\ connected_rooms[a][d] = b
        /\ connected_rooms[c][d] = None
        /\ add_connection(connected_rooms, c, b, d).result = "ValueError"

\* the position of the combatant with key k in inst's combatant list
ListPosition(inst, k) == CHOOSE j \in 1..Len(inst.combatants) : inst.combatants[j].key = k

\* the key of the first combatant of inst standing after the one with key k,
\* going round the combatant list; 0 when nobody else stands
NextStandingAfter(inst, k) ==
    LET n == Len(inst.combatants)
        p == ListPosition(inst, k)
        ahead == {s \in 1..(n - 1) : ~inst.combatants[((p - 1 + s) % n) + 1].is_knocked_out}
    IN IF ahead = {} THEN 0
       ELSE inst.combatants[((p - 1 + (CHOOSE s \in ahead : \A t \in ahead : s <= t)) % n) + 1].key

\* the outcomes of the turn-ending moves of player c, current in instance i:
\* an attack that was resolved, a defend, a failed flee and the turn timeout
TurnEndings(i, c) ==
    UNION {{o \in handle_combat_input(CS, c, "attack", arg, FALSE) : o.msg = "ok"} :
             arg \in CombatArgs}
    \cup handle_combat_input(CS, c, "defend", NoName, FALSE)
    \cup handle_combat_input(CS, c, "flee", NoName, FALSE)
    \cup on_turn_timeout(IF timer_tasks[i] = <<>> THEN CS ELSE Woken(CS, i, Len(timer_tasks[i])), i, c)

\* C28: when the current combatant X of an encounter among players, each
\* listed once, attacks,
\* defends, fails to flee or times out and the encounter goes on, the turn is
\* then with the first standing combatant after X in the turn order, going
\* round, also when X knocked out somebody placed before X; so nobody
\* standing is skipped and X does not play twice in a row
C28_TurnPassesToNextStanding ==
    \A i \in TheSlots :
        LET inst == combats[i]
            X == current_combatant(inst)
        IN (/\ Live(i) /\ X.key # 0
            /\ active_combats[X.character_id] = i
            /\ \A j \in 1..Len(inst.combatants) : ~inst.combatants[j].is_npc
            /\ Cardinality(CombatantIds(inst)) = Len(inst.combatants)) =>
              \A o \in TurnEndings(i, X.character_id) :
                  (\E c \in DOMAIN o.active_combats : o.active_combats[c] = i) =>
                      /\ current_combatant(o.combats[i]).key = NextStandingAfter(o.combats[i], X.key)
                      /\ current_combatant(o.combats[i]).key # X.key

\* a mark no character id equals
Stale == -1

\* the combat state with the pending timer tasks of instance i marked
Marked(i) ==
    [CS EXCEPT !.timer_tasks[i] = [k \in 1..Len(@) |-> Stale],
               !.timer[i] = IF @ = None THEN None ELSE Stale]

\* the outcomes of the real actions of player c: attack, defend, flee
RealActions(cs, c) ==
    UNION {handle_combat_input(cs, c, "attack", arg, FALSE) : arg \in CombatArgs}
    \cup handle_combat_input(cs, c, "defend", NoName, FALSE)
    \cup UNION {handle_combat_input(cs, c, "flee", NoName, fled) : fled \in BOOLEAN}

\* no instance has two timer tasks pending
OnePendingTimer == \A i \in TheSlots : Len(timer_tasks[i]) <= 1

\* once a real action of the current player is processed, the timer task
\* that was pending for the turn is pending no more
ActionCancelsTimer ==
    \A c \in ThePlayers :
        IsCurrent(c) =>
            LET i == active_combats[c]
            IN \A o \in RealActions(Marked(i), c) :
                 o.msg \in {"ok", "escaped", "no_enemies"} =>
                    /\ Stale \notin Range(o.timer_tasks[i])
                    /\ o.timer[i] # Stale
                    /\ Len(o.timer_tasks[i]) <= 1

\* once the timer of the current player's turn has fired and passed the
\* turn on, a late action of that player is refused and changes nothing
TimeoutEndsTurn ==
    \A c \in ThePlayers :
        (IsCurrent(c) /\ timer[active_combats[c]] = c) =>
            LET i == active_combats[c]
            IN \A t \in on_turn_timeout(Woken(CS, i, Len(timer_tasks[i])), i, c) :
                 (t.active_combats[c] = None
                  \/ current_combatant(t.combats[i]).character_id # c) =>
                     \A o \in RealActions(t, c) :
                        o = Msg(t, "not_your_turn") \/ o = Msg(t, "not_in_combat")

\* C29: a turn is ended once: the turn timer pending when the current
\* player's attack, defend or flee is processed is cancelled and does not
\* fire afterwards, a timer that fired first leaves the late action refused,
\* and no instance ever has more than one turn timer pending
C29_TurnEndedOnce ==
    /\ OnePendingTimer
    /\ ActionCancelsTimer
    /\ TimeoutEndsTurn

\* a player is current with its turn timer pending and has an action that
\* passes the turn to another player, whose timer is then the pending one
C29_Witness ==
    \E c \in ThePlayers :
        /\ IsCurrent(c) /\ timer_tasks[active_combats[c]] = <<c>>
        /\ \E o \in handle_combat_input(CS, c, "defend", NoName, FALSE) :
              /\ Len(o.timer_tasks[active_combats[c]]) = 1
              /\ o.timer[active_combats[c]] # c

\* the instance has ended: no index entry refers to it and at most one team stands
Ended(i) == ~Live(i) /\ is_over(combats[i])

\* the timer task of instance i started for x finds the state it guarded
\* changed: the instance has ended, x is not among its combatants any
\* more, or x is not its current combatant
StaleFor(i, x) ==
    \/ Ended(i)
    \/ x \notin CombatantIds(combats[i])
    \/ current_combatant(combats[i]).key = 0
    \/ current_combatant(combats[i]).character_id # x

\* C30: a turn-timeout callback for character X that fires when X is no
\* longer the current combatant, X has left the instance or the instance
\* has ended changes nothing: no turn index, round, flag, health value,
\* index entry or recovery task changes, and no timer is started
C30_StaleTimeoutIsNoOp ==
    \A i \in TheSlots : \A k \in 1..Len(timer_tasks[i]) :
        StaleFor(i, timer_tasks[i][k]) =>
            on_turn_timeout(Woken(CS, i, k), i, timer_tasks[i][k]) = {Woken(CS, i, k)}

\* a turn timer is pending for a character that is still in the instance
\* but not its current combatant any more, and its firing changes nothing
C30_Witness ==
    \E i \in TheSlots :
        /\ Live(i) /\ timer_tasks[i] # <<>>
        /\ timer_tasks[i][1] \in CombatantIds(combats[i])
        /\ StaleFor(i, timer_tasks[i][1])
        /\ on_turn_timeout(Woken(CS, i, 1), i, timer_tasks[i][1]) = {Woken(CS, i, 1)}

\* C31: in every state, that is after every completed startCombat, combat
\* input, timeout, knockout recovery and removePlayer, the current
\* combatant of every live instance is not an NPC
C31_NoNpcLeftWaiting ==
    \A i \in TheSlots :
        Live(i) => ~current_combatant(combats[i]).is_npc

\* the keys of the combatants of inst whose defending flag is set
DefendingKeys(inst) ==
    {inst.combatants[j].key : j \in {m \in 1..Len(inst.combatants) : inst.combatants[m].is_defending}}

\* the outcomes that end the turn of the current player c of instance i
\* otherwise than by defend: a resolved attack, a flee, the turn timeout
UndefendedEndings(i, c) ==
    UNION {{o \in handle_combat_input(CS, c, "attack", arg, FALSE) : o.msg = "ok"} :
             arg \in CombatArgs}
    \cup UNION {handle_combat_input(CS, c, "flee", NoName, fled) : fled \in BOOLEAN}
    \cup on_turn_timeout(IF timer_tasks[i] = <<>> THEN CS ELSE Woken(CS, i, Len(timer_tasks[i])), i, c)

\* the outcomes of what does not end a turn: refused or unresolved input of
\* player c, a knockout recovery, removePlayer, startCombat
OtherOutcomes(c) ==
    UNION {handle_combat_input(CS, c, "attack", arg, FALSE) \ 
             {o \in handle_combat_input(CS, c, "attack", arg, FALSE) : o.msg = "ok"} :
             arg \in CombatArgs}
    \cup handle_combat_input(CS, c, "dance", NoName, FALSE)
    \cup (IF IsCurrent(c) THEN {} ELSE handle_combat_input(CS, c, "defend", NoName, FALSE))
    \cup {recover(CS, r) : r \in recoveries}
    \cup {remove_player(CS, c)}
    \cup UNION {start_combat(CS, c, t, SessionRoom(sessions, c)) : t \in DOMAIN hp \ {c}}

\* C32: the defending flag of a combatant is set only by its own defend and
\* is cleared by its own resolved attack, failed flee and turn timeout: the
\* defend of the current combatant sets its flag and no other, every other
\* ending of its turn leaves it without the flag and sets none, and no
\* other operation sets a flag; so a combatant is defending only if its
\* most recent turn ended with defend
C32_DefendingOnlyAfterDefend ==
    \A c \in ThePlayers :
        /\ IsCurrent(c) =>
              LET i == active_combats[c]
                  k == current_combatant(combats[i]).key
              IN /\ \A o \in handle_combat_input(CS, c, "defend", NoName, FALSE) :
                       /\ k \in DefendingKeys(o.combats[i])
                       /\ DefendingKeys(o.combats[i]) \subseteq DefendingKeys(combats[i]) \cup {k}
                 /\ \A o \in UndefendedEndings(i, c) :
                       DefendingKeys(o.combats[i]) \subseteq DefendingKeys(combats[i]) \ {k}
        /\ \A o \in OtherOutcomes(c) : \A j \in TheSlots :
              DefendingKeys(o.combats[j]) \subseteq DefendingKeys(combats[j])

\* the current player is defending since its last turn, and its failed
\* flee leaves it in the instance without the flag
C32_Witness ==
    \E c \in ThePlayers :
        /\ IsCurrent(c)
        /\ current_combatant(combats[active_combats[c]]).is_defending
        /\ \E o \in handle_combat_input(CS, c, "flee", NoName, FALSE) :
              /\ o.active_combats[c] = active_combats[c]
              /\ current_combatant(combats[active_combats[c]]).key
                    \notin DefendingKeys(o.combats[active_combats[c]])

\* every party's list has at least two entries and starts with its leader key
PartyListsHaveTwoEntries ==
    \A k \in 1..Len(parties) :
        /\ Len(parties[k].members) >= 2
        /\ parties[k].members[1] = parties[k].leader

\* C33: in every reachable state of the party service every party has at
\* least two members, that is two characters in its list, and its leader
\* key is the first of its own list
C33_PartiesHaveTwoMembers ==
    /\ PartyListsHaveTwoEntries
    /\ \A k \in 1..Len(parties) : Cardinality(Range(parties[k].members)) >= 2

\* C34: after any sequence of join, leave and move_player the registry and
\* the rooms agree: the player of every Session is listed exactly once in
\* the Session's room and in no other room, no room lists a player without
\* a Session, and leave of an id that is not joined changes nothing
C34_RegistryAndRoomsAgree ==
    /\ \A c \in ThePlayers : \A r \in Rooms :
          Count(present_players[r], c) =
              IF HasSession(sessions, c) /\ SessionRoom(sessions, c) = r THEN 1 ELSE 0
    /\ \A c \in ThePlayers : ~HasSession(sessions, c) => leave(WS, c) = WS

\* C35: in the instance of every start_combat that succeeds, the initiator's
\* own id or a member of its own party as target included, every character
\* id is listed at most once and is on one team only
C35_CombatantsListedOnce ==
    \A a \in ThePlayers : \A t \in DOMAIN hp :
        (/\ HasSession(sessions, a)
         /\ t \in TheNpcs \/ InRoom(t, SessionRoom(sessions, a))) =>
            \A o \in start_combat(Spare(CS), a, t, SessionRoom(sessions, a)) :
                o.msg = "started" =>
                    LET inst == o.combats[NewSlot]
                    IN /\ Cardinality(CombatantIds(inst)) = Len(inst.combatants)
                       /\ TeamIds(inst, 0) \cap TeamIds(inst, 1) = {}

\* every timer task pending for a live instance was started for its current combatant
PendingTimerIsForCurrent ==
    \A i \in TheSlots : Live(i) =>
        \A k \in 1..Len(timer_tasks[i]) :
            /\ current_combatant(combats[i]).key # 0
            /\ current_combatant(combats[i]).character_id = timer_tasks[i][k]

\* C36: a turn timer pending for a live instance was started for its
\* current combatant, and a live instance whose current combatant is a
\* player has a timer pending for that player
C36_TimerFollowsTurn ==
    /\ PendingTimerIsForCurrent
    /\ \A i \in TheSlots : Live(i) =>
          LET current == current_combatant(combats[i])
          IN (current.key # 0 /\ ~current.is_npc) =>
                current.character_id \in Range(timer_tasks[i])

\* C37: a knockout recovery that fires while the instance of its combatant
\* is live leaves the current combatant of that instance the same
C37_RecoveryKeepsCurrent ==
    \A r \in recoveries :
        Live(r.inst) =>
            current_combatant(recover(CS, r).combats[r.inst]).key
                = current_combatant(combats[r.inst]).key

\* SpecSync: the players and the NPC of Spec with no event loop running, as
\* in a synchronous harness: no timer task and no recovery task is created
InitSync ==
    /\ InitWorld(1..2)
    /\ parties = <<>>
    /\ invites = [c \in 1..2 |-> None]
    /\ InitCombat(1..2, InstIds)
    /\ loop = FALSE
    /\ InitRooms

NextSync ==
    \/ \E a \in ThePlayers : \E t \in DOMAIN hp \ {a} : StartCombat(a, t, SessionRoom(sessions, a))
    \/ \E c \in ThePlayers : AnyCombatInput(c, Verbs)
    \/ \E c \in ThePlayers : CombatRemovePlayer(c)

SpecSync == InitSync /\ [][NextSync]_vars

\* C39: with no event loop, right after an attack of the current player
\* every player combatant that was standing before it has health at least 1
\* and no knockout flag, neither on its character nor on its combatant:
\* a knockout is recovered from at once
C39_RecoveryAtOnceWithoutLoop ==
    ~loop =>
        \A c \in ThePlayers :
            IsCurrent(c) =>
                LET i == active_combats[c]
                IN \A arg \in CombatArgs :
                     \A o \in handle_combat_input(CS, c, "attack", arg, FALSE) :
                        \A j \in 1..Len(o.combats[i].combatants) :
                           LET d == o.combats[i].combatants[j]
                           IN (~d.is_npc /\ ~ByKey(combats[i], d.key).is_knocked_out) =>
                                 /\ o.hp[d.character_id] >= 1
                                 /\ ~o.char_ko[d.character_id]
                                 /\ ~d.is_knocked_out

\* C38: every player id in the active-combat index has a Session: after
\* leave(c) of a character in combat, c is in the index no more
C38_FightersHaveSessions ==
    \A c \in ThePlayers :
        active_combats[c] # None => HasSession(sessions, c)

\* SpecStart: the party, the third player and the NPC of SpecTeams, with
\* encounters started, fled from and left
NextStart ==
    \/ \E a \in ThePlayers : \E t \in DOMAIN hp \ {a} :
         /\ IF t \in TheNpcs THEN TRUE
            ELSE SessionRoom(sessions, t) = SessionRoom(sessions, a)
         /\ StartCombat(a, t, SessionRoom(sessions, a))
    \/ \E c \in ThePlayers : AnyCombatInput(c, {"flee"})
    \/ \E c \in ThePlayers : CombatRemovePlayer(c)

SpecStart == InitTeams /\ [][NextStart]_vars

\* C40: the combatant list start_combat registers is ordered by initiative,
\* highest first, where initiative is the die roll plus floor(stamina / 10);
\* combatants of equal initiative keep their insertion order, which has the
\* initiator's team before the target's; the first turn is that of the first
\* combatant of the order, and a player who is first is current with its
\* timer pending when start_combat returns
C40_InitiativeOrder ==
    \A at \in StartPairs :
        LET a == at[1]
            t == at[2]
            r == SessionRoom(sessions, a)
            built == build_combatants(active_combats, a, t, r)
        IN (active_combats[a] = None /\ (t \in ThePlayers => active_combats[t] = None)
               /\ Len(built) >= 2) =>
             /\ \A j, k \in 1..Len(built) : j < k => built[j].team <= built[k].team
             /\ \A rolls \in [1..Len(built) -> 1..DieSides] :
                  LET reg == register_combat(Spare(CS), NewSlot, built, r, rolls)
                      inst == reg.combats[NewSlot]
                      list == inst.combatants
                  IN /\ {list[j].key : j \in 1..Len(list)} = 1..Len(built)
                     /\ Len(list) = Len(built)
                     /\ \A j \in 1..Len(list) :
                           list[j].initiative =
                               rolls[list[j].key] + (Stamina(list[j].character_id) \div 10)
                     /\ \A j, k \in 1..Len(list) : j < k =>
                           \/ list[j].initiative > list[k].initiative
                           \/ /\ list[j].initiative = list[k].initiative
                              /\ list[j].key < list[k].key
                     /\ current_combatant(inst) = list[1]
                     /\ ~list[1].is_npc =>
                           \A o \in start_turn(reg, NewSlot) :
                              /\ current_combatant(o.combats[NewSlot]) = list[1]
                              /\ o.timer_tasks[NewSlot] = <<list[1].character_id>>
                     /\ \A o \in start_turn(reg, NewSlot) :
                           Msg(o, "started") \in start_combat(Spare(CS), a, t, r)

\* an encounter can be started in which a combatant of the target's team
\* rolls higher than one of the initiator's team and two combatants tie
C40_Witness ==
    \E at \in StartPairs :
        LET built == build_combatants(active_combats, at[1], at[2], SessionRoom(sessions, at[1]))
        IN /\ active_combats[at[1]] = None
           /\ Len(built) >= 3
           /\ \E o \in start_combat(Spare(CS), at[1], at[2], SessionRoom(sessions, at[1])) :
                 /\ o.msg = "started"
                 /\ LET list == o.combats[NewSlot].combatants
                    IN /\ list[1].team = 1
                       /\ \E j \in 1..(Len(list) - 1) :
                             /\ list[j].initiative = list[j + 1].initiative
                             /\ list[j].key < list[j + 1].key

====
